---- MODULE Spec2Model ----
(***************************************************************************)
(* Model of the YuS stream cipher core (Aurorp1g/Yus_cipher): field        *)
(* helpers, S-box, S-box layer with its function-local static S-box,       *)
(* linear layer with the Four-Russians table, round-key schedule and the   *)
(* keystream engine.                                                        *)
(*                                                                          *)
(* Vectors (std::vector) are sequences; the element the code calls v[i]    *)
(* is At(v, i).  mpz_class values are unbounded integers in the code; the  *)
(* checker's integers are 32 bits wide, so the one place where an exact    *)
(* product can exceed them (Times) carries the product modulo the modulus  *)
(* it is about to be reduced by.                                            *)
(*                                                                          *)
(* A record constructor lists its fields in the order the model checker    *)
(* sorts them in, so that a record reads the same here and in a trace.     *)
(***************************************************************************)
EXTENDS Integers, Sequences, FiniteSets, TLC

VARIABLES sbox_static, cipher, call

vars == <<sbox_static, cipher, call>>

----------------------------------------------------------------------------
(* utils.cpp *)

\* C++/GMP operator% on mpz_class truncates towards zero: the remainder has
\* the sign of the dividend.
TruncRem(a, p) ==
    IF a >= 0 THEN a % p ELSE 0 - ((0 - a) % p)

\* mod without the correction of a negative remainder
mod_truncating(a, p) ==
    TruncRem(a, p)

\* mod(a, p): res = a % p; if (res < 0) res += p
mod(a, p) ==
    LET res == TruncRem(a, p)
    IN  IF res < 0 THEN res + p ELSE res

\* is_p_2mod3(p): (p % 3) == 2
is_p_2mod3(p) ==
    TruncRem(p, 3) = 2

Abs(a) ==
    IF a < 0 THEN 0 - a ELSE a

\* a * b on mpz_class.  The exact product is used whenever it fits; for two
\* large operands (one of them at least 2^15 in magnitude, which only
\* happens for field elements of a modulus p >= 2^15) the product is carried
\* modulo p, split as (a div 512) * b * 512 + (a mod 512) * b.  Every use of
\* a product in the code is reduced by mod(., p) at once, so the residue is
\* the one the code computes.
Times(a, b, p) ==
    IF Abs(a) < 2 ^ 15 /\ Abs(b) < 2 ^ 15
    THEN a * b
    ELSE LET sgn == IF (a < 0) = (b < 0) THEN 1 ELSE 0 - 1
             x   == Abs(a) % p
             y   == Abs(b) % p
             hi  == ((x \div 512) * y) % p
             lo  == (x % 512) * y
         IN  sgn * ((hi * 512 + lo) % p)

At(v, i) ==
    v[i + 1]

\* The model checker passes operator arguments unevaluated.  A loop that threads an
\* accumulator through its iterations tests the accumulator at every step, so
\* that it is a value, not a chain of pending computations, when the next
\* iteration starts.  Evaluated(v) is true of every value.
Evaluated(v) ==
    v = v

----------------------------------------------------------------------------
(* linear_layer.cpp *)

\* matrix_binary: the 36 row strings, one digit per column, column 0 first.
matrix_binary ==
 <<
    <<1,1,0,1,1,1,1,1,1,0,0,1,0,0,1,1,1,1,0,1,1,1,1,0,1,1,0,0,0,1,1,1,0,1,1,1>>,
    <<1,1,1,1,1,0,1,0,1,0,1,0,1,1,0,1,0,1,1,0,1,1,1,1,1,1,1,0,1,0,0,1,1,1,1,0>>,
    <<0,1,0,0,1,1,0,1,1,1,1,0,1,0,1,0,1,1,1,1,1,1,0,1,0,1,1,1,1,1,1,1,1,1,0,1>>,
    <<1,1,1,1,1,0,1,1,1,1,1,1,0,0,1,0,0,1,1,1,1,0,1,1,1,1,0,1,1,0,0,0,1,1,1,0>>,
    <<1,1,0,1,1,1,1,1,0,1,0,1,0,1,0,1,1,0,1,0,1,1,0,1,1,1,1,1,1,1,0,1,0,0,1,1>>,
    <<1,0,1,0,1,0,0,1,1,0,1,1,1,1,0,1,0,1,0,1,1,1,1,1,1,0,1,0,1,1,1,1,1,1,1,1>>,
    <<1,1,0,1,1,1,1,1,0,1,1,1,1,1,1,0,0,1,0,0,1,1,1,1,0,1,1,1,1,0,1,1,0,0,0,1>>,
    <<0,1,1,1,1,0,1,1,1,1,1,0,1,0,1,0,1,0,1,1,0,1,0,1,1,0,1,1,1,1,1,1,1,0,1,0>>,
    <<1,1,1,1,0,1,0,1,0,0,1,1,0,1,1,1,1,0,1,0,1,0,1,1,1,1,1,1,0,1,0,1,1,1,1,1>>,
    <<0,0,1,1,1,0,1,1,1,1,1,0,1,1,1,1,1,1,0,0,1,0,0,1,1,1,1,0,1,1,1,1,0,1,1,0>>,
    <<0,1,0,0,1,1,1,1,0,1,1,1,1,1,0,1,0,1,0,1,0,1,1,0,1,0,1,1,0,1,1,1,1,1,1,1>>,
    <<1,1,1,1,1,1,1,0,1,0,1,0,0,1,1,0,1,1,1,1,0,1,0,1,0,1,1,1,1,1,1,0,1,0,1,1>>,
    <<1,1,0,0,0,1,1,1,0,1,1,1,1,1,0,1,1,1,1,1,1,0,0,1,0,0,1,1,1,1,0,1,1,1,1,0>>,
    <<1,1,1,0,1,0,0,1,1,1,1,0,1,1,1,1,1,0,1,0,1,0,1,0,1,1,0,1,0,1,1,0,1,1,1,1>>,
    <<0,1,1,1,1,1,1,1,1,1,0,1,0,1,0,0,1,1,0,1,1,1,1,0,1,0,1,0,1,1,1,1,1,1,0,1>>,
    <<1,1,0,1,1,0,0,0,1,1,1,0,1,1,1,1,1,0,1,1,1,1,1,1,0,0,1,0,0,1,1,1,1,0,1,1>>,
    <<1,1,1,1,1,1,0,1,0,0,1,1,1,1,0,1,1,1,1,1,0,1,0,1,0,1,0,1,1,0,1,0,1,1,0,1>>,
    <<1,0,1,0,1,1,1,1,1,1,1,1,1,0,1,0,1,0,0,1,1,0,1,1,1,1,0,1,0,1,0,1,1,1,1,1>>,
    <<0,1,1,1,1,0,1,1,0,0,0,1,1,1,0,1,1,1,1,1,0,1,1,1,1,1,1,0,0,1,0,0,1,1,1,1>>,
    <<1,0,1,1,1,1,1,1,1,0,1,0,0,1,1,1,1,0,1,1,1,1,1,0,1,0,1,0,1,0,1,1,0,1,0,1>>,
    <<1,1,1,1,0,1,0,1,1,1,1,1,1,1,1,1,0,1,0,1,0,0,1,1,0,1,1,1,1,0,1,0,1,0,1,1>>,
    <<1,1,1,0,1,1,1,1,0,1,1,0,0,0,1,1,1,0,1,1,1,1,1,0,1,1,1,1,1,1,0,0,1,0,0,1>>,
    <<1,0,1,1,0,1,1,1,1,1,1,1,0,1,0,0,1,1,1,1,0,1,1,1,1,1,0,1,0,1,0,1,0,1,1,0>>,
    <<0,1,1,1,1,1,1,0,1,0,1,1,1,1,1,1,1,1,1,0,1,0,1,0,0,1,1,0,1,1,1,1,0,1,0,1>>,
    <<0,0,1,1,1,1,0,1,1,1,1,0,1,1,0,0,0,1,1,1,0,1,1,1,1,1,0,1,1,1,1,1,1,0,0,1>>,
    <<1,1,0,1,0,1,1,0,1,1,1,1,1,1,1,0,1,0,0,1,1,1,1,0,1,1,1,1,1,0,1,0,1,0,1,0>>,
    <<1,0,1,0,1,1,1,1,1,1,0,1,0,1,1,1,1,1,1,1,1,1,0,1,0,1,0,0,1,1,0,1,1,1,1,0>>,
    <<0,0,1,0,0,1,1,1,1,0,1,1,1,1,0,1,1,0,0,0,1,1,1,0,1,1,1,1,1,0,1,1,1,1,1,1>>,
    <<0,1,0,1,1,0,1,0,1,1,0,1,1,1,1,1,1,1,0,1,0,0,1,1,1,1,0,1,1,1,1,1,0,1,0,1>>,
    <<1,1,0,1,0,1,0,1,1,1,1,1,1,0,1,0,1,1,1,1,1,1,1,1,1,0,1,0,1,0,0,1,1,0,1,1>>,
    <<1,1,1,0,0,1,0,0,1,1,1,1,0,1,1,1,1,0,1,1,0,0,0,1,1,1,0,1,1,1,1,1,0,1,1,1>>,
    <<1,0,1,0,1,0,1,1,0,1,0,1,1,0,1,1,1,1,1,1,1,0,1,0,0,1,1,1,1,0,1,1,1,1,1,0>>,
    <<0,1,1,1,1,0,1,0,1,0,1,1,1,1,1,1,0,1,0,1,1,1,1,1,1,1,1,1,0,1,0,1,0,0,1,1>>,
    <<1,1,1,1,1,1,0,0,1,0,0,1,1,1,1,0,1,1,1,1,0,1,1,0,0,0,1,1,1,0,1,1,1,1,1,0>>,
    <<1,1,0,1,0,1,0,1,0,1,1,0,1,0,1,1,0,1,1,1,1,1,1,1,0,1,0,0,1,1,1,1,0,1,1,1>>,
    <<0,1,1,0,1,1,1,1,0,1,0,1,0,1,1,1,1,1,1,0,1,0,1,1,1,1,1,1,1,1,1,0,1,0,1,0>>
 >>

\* matrix_[i][j] = (matrix_binary[i][j] == '1') ? 1 : 0
matrix_(row, col) ==
    matrix_binary[row + 1][col + 1]

group_size ==
    4

num_groups ==
    9

StateLen ==
    36

\* An mpz_class used as a bit set is the set of its set bit positions;
\* operator^ is the symmetric difference.
BitXor(s, t) ==
    (s \ t) \cup (t \ s)

\* mask & (1 << bit)
MaskBit(mask, bit) ==
    (mask \div (2 ^ bit)) % 2 = 1

\* col_vec of precompute_four_russians: bit `row` set when matrix_[row][col] = 1
col_vec(col) ==
    {row \in 0 .. StateLen - 1 : matrix_(row, col) = 1}

RECURSIVE XorSelected(_, _, _, _)
\* the loop over bit = 0 .. group_size-1:  sum ^= col_vec for selected columns
XorSelected(col_start, mask, bit, sum) ==
    IF bit = group_size THEN sum
    ELSE XorSelected(col_start, mask, bit + 1,
                     IF MaskBit(mask, bit)
                     THEN BitXor(sum, col_vec(col_start + bit))
                     ELSE sum)

\* four_russians_table_[group][mask] as built by precompute_four_russians
four_russians_table_ ==
    [group \in 0 .. num_groups - 1 |->
        [mask \in 0 .. (2 ^ group_size) - 1 |->
            XorSelected(group * group_size, mask, 0, {})]]

RECURSIVE RowMask(_, _, _, _)
\* the row mask of apply: mask |= (1 << bit) when matrix_[row][col_start+bit] = 1
RowMask(row, col_start, bit, mask) ==
    IF bit = group_size THEN mask
    ELSE RowMask(row, col_start, bit + 1,
                 IF matrix_(row, col_start + bit) = 1
                 THEN mask + 2 ^ bit
                 ELSE mask)

RECURSIVE ApplyBits(_, _, _, _, _, _)
\* the loop over i = 0 .. 35 of apply: for every set bit i of the table entry,
\* row_sum = mod(row_sum + state[col_start + i % group_size], p)
ApplyBits(precomputed, state, p, col_start, i, row_sum) ==
    IF i = StateLen THEN row_sum
    ELSE LET next == IF i \in precomputed
                     THEN mod(row_sum + At(state, col_start + (i % group_size)), p)
                     ELSE row_sum
         IN  IF Evaluated(next)
             THEN ApplyBits(precomputed, state, p, col_start, i + 1, next)
             ELSE next

\* The inner loop of apply only ever adds entries of state to row_sum, so its
\* effect on row_sum is fixed by how often it adds each of the four entries
\* state[col_start + b].  LoopCount[row][group][b] is that number, read off
\* the loop itself: ApplyBits run on the unit vector of column col_start + b
\* with a modulus (StateLen + 1) that no count reaches.
UnitVector(col) ==
    [k \in 1 .. StateLen |-> IF k = col + 1 THEN 1 ELSE 0]

LoopCount ==
    [row \in 0 .. StateLen - 1 |->
        [group \in 0 .. num_groups - 1 |->
            LET col_start   == group * group_size
                mask        == RowMask(row, col_start, 0, 0)
                precomputed == four_russians_table_[group][mask]
            IN  [b \in 0 .. group_size - 1 |->
                    ApplyBits(precomputed, UnitVector(col_start + b),
                              StateLen + 1, col_start, 0, 0)]]]

\* the inner loop accumulating without reducing modulo p
InnerLoop_unreduced(row, group, state, p, row_sum) ==
    LET col_start == group * group_size
        n         == LoopCount[row][group]
    IN  row_sum + n[0] * At(state, col_start)
                + n[1] * At(state, col_start + 1)
                + n[2] * At(state, col_start + 2)
                + n[3] * At(state, col_start + 3)

\* One pass of the inner loop of apply for (row, group), starting from row_sum:
\* the value ApplyBits(precomputed, state, p, col_start, 0, row_sum) computes.
InnerLoop(row, group, state, p, row_sum) ==
    LET col_start == group * group_size
        n         == LoopCount[row][group]
    IN  mod(row_sum + n[0] * At(state, col_start)
                    + n[1] * At(state, col_start + 1)
                    + n[2] * At(state, col_start + 2)
                    + n[3] * At(state, col_start + 3), p)

RECURSIVE ApplyGroups(_, _, _, _, _)
\* the loop over group = 0 .. num_groups-1 of apply, for one row
ApplyGroups(row, state, p, group, row_sum) ==
    IF group = num_groups THEN row_sum
    ELSE LET next == InnerLoop(row, group, state, p, row_sum)
         IN  IF Evaluated(next)
             THEN ApplyGroups(row, state, p, group + 1, next)
             ELSE next

RECURSIVE ApplyGroupsBitwise(_, _, _, _, _)
\* the same loop with the inner loop run bit by bit
ApplyGroupsBitwise(row, state, p, group, row_sum) ==
    IF group = num_groups THEN row_sum
    ELSE LET col_start   == group * group_size
             mask        == RowMask(row, col_start, 0, 0)
             precomputed == four_russians_table_[group][mask]
             next        == ApplyBits(precomputed, state, p, col_start, 0, row_sum)
         IN  IF Evaluated(next)
             THEN ApplyGroupsBitwise(row, state, p, group + 1, next)
             ELSE next

Ok(v) ==
    [status |-> "ok", out |-> v]

InvalidArgument ==
    [status |-> "invalid_argument", out |-> <<>>]

\* LinearLayer::apply(state, p)
LinearLayer_apply(state, p) ==
    IF Len(state) # StateLen THEN InvalidArgument
    ELSE Ok([k \in 1 .. StateLen |-> ApplyGroups(k - 1, state, p, 0, 0)])

----------------------------------------------------------------------------
(* sbox.cpp (second half of round_key.cpp) *)

\* SBox::SBox(p): throws invalid_argument unless is_p_2mod3(p)
SBox_ctor_ok(p) ==
    is_p_2mod3(p)

\* SBox::apply with the sign of the x0*x1 term lost
SBox_apply_sign(p_, input) ==
    IF Len(input) # 3 THEN InvalidArgument
    ELSE LET x0 == At(input, 0)
             x1 == At(input, 1)
             x2 == At(input, 2)
             y0 == mod(x0, p_)
             y1 == mod(Times(x0, x2, p_) + x1, p_)
             y2 == mod(Times(x0, x1, p_) + Times(x0, x2, p_) + x2, p_)
         IN  Ok(<<y0, y1, y2>>)

\* SBox::apply(input) of the S-box whose member p_ is p_
SBox_apply(p_, input) ==
    IF Len(input) # 3 THEN InvalidArgument
    ELSE LET x0 == At(input, 0)
             x1 == At(input, 1)
             x2 == At(input, 2)
             y0 == mod(x0, p_)
             y1 == mod(Times(x0, x2, p_) + x1, p_)
             y2 == mod(Times(0 - x0, x1, p_) + Times(x0, x2, p_) + x2, p_)
         IN  Ok(<<y0, y1, y2>>)

\* The inputs {x0, x1, x2} enumerated by the exhaustive branch of is_permutation
FieldTriples(p_) ==
    {<<x0, x1, x2>> : x0 \in 0 .. p_ - 1, x1 \in 0 .. p_ - 1, x2 \in 0 .. p_ - 1}

\* SBox::is_permutation with the exhaustive count compared with p^2
SBox_is_permutation_square(p_) ==
    IF p_ > 1000
    THEN LET det == mod(1 + p_ + Times(p_, p_, p_), p_)
         IN  det # 0
    ELSE LET outputs == {SBox_apply(p_, x).out : x \in FieldTriples(p_)}
         IN  Cardinality(outputs) = p_ * p_

\* SBox::is_permutation(): the determinant test above 1000, otherwise the
\* exhaustive loop, which returns false at the first repeated output and
\* otherwise compares the number of collected outputs with p^3.
SBox_is_permutation(p_) ==
    IF p_ > 1000
    THEN LET det == mod(1 + p_ + Times(p_, p_, p_), p_)
         IN  det # 0
    ELSE LET outputs == {SBox_apply(p_, x).out : x \in FieldTriples(p_)}
         IN  Cardinality(outputs) = p_ * p_ * p_

\* SBox::differential_uniformity(): p_ * p_ (kept symbolic as the pair of factors)
SBox_differential_uniformity(p_) ==
    <<p_, p_>>

\* The function-local `static SBox sbox(p)` of apply_sbox_layer: not
\* constructed until the first call that reaches its declaration, afterwards
\* an S-box holding the p_ it was constructed with.
NoSBox ==
    [constructed |-> FALSE]

StaticSBox(p) ==
    [p_ |-> p, constructed |-> TRUE]

RECURSIVE SBoxLayerLoop(_, _, _, _)
\* the loop over i = 0 .. 11 of apply_sbox_layer, using the static S-box
SBoxLayerLoop(sbox_p, state, i, output) ==
    IF i = 12 THEN output
    ELSE LET start       == i * 3
             sbox_input  == <<At(state, start), At(state, start + 1), At(state, start + 2)>>
             sbox_output == SBox_apply(sbox_p, sbox_input).out
         IN  SBoxLayerLoop(sbox_p, state, i + 1,
                 [output EXCEPT ![start + 1] = At(sbox_output, 0),
                                ![start + 2] = At(sbox_output, 1),
                                ![start + 3] = At(sbox_output, 2)])

\* apply_sbox_layer(state, p) called when the static S-box is st: the result
\* and the static S-box afterwards.  The size check comes first; the static
\* is constructed from p only by the first call that gets that far, and a
\* constructor that throws leaves it unconstructed.
apply_sbox_layer(state, p, st) ==
    IF Len(state) # StateLen THEN [res |-> InvalidArgument, st |-> st]
    ELSE IF ~st.constructed /\ ~SBox_ctor_ok(p) THEN [res |-> InvalidArgument, st |-> st]
    ELSE LET sbox == IF st.constructed THEN st ELSE StaticSBox(p)
         IN  [res |-> Ok(SBoxLayerLoop(sbox.p_, state, 0, [k \in 1 .. StateLen |-> 0])),
              st  |-> sbox]

----------------------------------------------------------------------------
(* round_key.cpp *)

RECURSIVE Absorb(_, _, _)
Absorb(input, k, h) ==
    IF k > Len(input) THEN h
    ELSE Absorb(input, k + 1, (h * 131 + input[k] + 1) % 65521)

\* RoundKeyGenerator::shake128_xof(input, output_len, output).  OpenSSL's
\* SHAKE128 lies outside the repository; it is represented by a fixed
\* deterministic function of the input bytes and the requested length that
\* is sensitive to every input byte and to their order.
shake128_xof(input, output_len) ==
    LET h == Absorb(input, 1, Len(input) + 1)
    IN  [k \in 1 .. output_len |->
            LET v == (h + 131 * k) % 32749
            IN  (((v * v) % 65521) \div 16) % 256]

\* the 4 bytes (v >> (k * 8)) & 0xFF for k = 0 .. 3 of a uint32_t
LE32(v) ==
    [k \in 1 .. 4 |-> (v \div (256 ^ (k - 1))) % 256]

RECURSIVE BytesModP(_, _, _, _)
\* mod(bytes_to_mpz(bytes), p): mpz_import with order 1 reads the bytes most
\* significant first.  A 64-bit value does not fit the model checker's integers, so
\* the big-endian value is accumulated modulo p.
BytesModP(bytes, p, k, acc) ==
    IF k > Len(bytes) THEN acc
    ELSE BytesModP(bytes, p, k + 1, (acc * 256 + bytes[k]) % p)

\* generate_round_constant with the round index before the block index
generate_round_constant_swapped(nonce_, i, j, p) ==
    LET input    == nonce_ \o LE32(i) \o LE32(j)
        rc_bytes == shake128_xof(input, 36 * 8)
    IN  [k \in 1 .. 36 |->
            LET elem_bytes == SubSeq(rc_bytes, (k - 1) * 8 + 1, k * 8)
                v          == BytesModP(elem_bytes, p, 1, 0)
            IN  IF v = 0 THEN 1 ELSE v]

\* generate_round_constant without the replacement of a zero element
generate_round_constant_keeps_zero(nonce_, i, j, p) ==
    LET input    == nonce_ \o LE32(j) \o LE32(i)
        rc_bytes == shake128_xof(input, 36 * 8)
    IN  [k \in 1 .. 36 |->
            BytesModP(SubSeq(rc_bytes, (k - 1) * 8 + 1, k * 8), p, 1, 0)]

\* RoundKeyGenerator::generate_round_constant(i, j, p) of a generator whose
\* member nonce_ is nonce_
generate_round_constant(nonce_, i, j, p) ==
    LET input    == nonce_ \o LE32(j) \o LE32(i)
        rc_bytes == shake128_xof(input, 36 * 8)
    IN  [k \in 1 .. 36 |->
            LET elem_bytes == SubSeq(rc_bytes, (k - 1) * 8 + 1, k * 8)
                v          == BytesModP(elem_bytes, p, 1, 0)
            IN  IF v = 0 THEN 1 ELSE v]

\* generate_round_key that adds the round constant to the key
generate_round_key_adds(master_key, round_constant, p) ==
    IF Len(master_key) # 36 \/ Len(round_constant) # 36 THEN InvalidArgument
    ELSE Ok([k \in 1 .. 36 |-> mod(master_key[k] + round_constant[k], p)])

\* RoundKeyGenerator::generate_round_key(master_key, round_constant, p)
generate_round_key(master_key, round_constant, p) ==
    IF Len(master_key) # 36 \/ Len(round_constant) # 36 THEN InvalidArgument
    ELSE Ok([k \in 1 .. 36 |-> mod(Times(master_key[k], round_constant[k], p), p)])

\* add_round_key that leaves the sums unreduced
add_round_key_unreduced(state, round_key, p) ==
    IF Len(state) # 36 \/ Len(round_key) # 36 THEN InvalidArgument
    ELSE Ok([k \in 1 .. 36 |-> state[k] + round_key[k]])

\* add_round_key that checks the size of the state only
add_round_key_checks_state(state, round_key, p) ==
    IF Len(state) # 36 THEN InvalidArgument
    ELSE Ok([k \in 1 .. 36 |->
                mod(state[k] + (IF k <= Len(round_key) THEN round_key[k] ELSE 0), p)])

\* add_round_key(state, round_key, p)
add_round_key(state, round_key, p) ==
    IF Len(state) # 36 \/ Len(round_key) # 36 THEN InvalidArgument
    ELSE Ok([k \in 1 .. 36 |-> mod(state[k] + round_key[k], p)])

----------------------------------------------------------------------------
(* yus_core.cpp *)

SEC80 ==
    5

SEC128 ==
    6

NoCipher ==
    [alive |-> FALSE]

\* the constructor without the test of p against 2^16
YuSCipher_ctor_any_size(p, level, trunc_m) ==
    IF ~SBox_ctor_ok(p) THEN [status |-> "invalid_argument", obj |-> NoCipher]
    ELSE IF ~is_p_2mod3(p) THEN [status |-> "invalid_argument", obj |-> NoCipher]
    ELSE IF trunc_m > 36 THEN [status |-> "invalid_argument", obj |-> NoCipher]
    ELSE [status |-> "ok",
          obj    |-> [p_          |-> p,
                      alive       |-> TRUE,
                      level_      |-> level,
                      trunc_m_    |-> trunc_m,
                      master_key_ |-> <<>>,
                      rk_gen_     |-> [nonce_ |-> <<>>, rounds_ |-> level]]]

\* the constructor rejecting the truncation width 36 as well
YuSCipher_ctor_rejects_36(p, level, trunc_m) ==
    IF ~SBox_ctor_ok(p) THEN [status |-> "invalid_argument", obj |-> NoCipher]
    ELSE IF ~is_p_2mod3(p) THEN [status |-> "invalid_argument", obj |-> NoCipher]
    ELSE IF trunc_m >= 36 THEN [status |-> "invalid_argument", obj |-> NoCipher]
    ELSE IF p < 2 ^ 16 THEN [status |-> "invalid_argument", obj |-> NoCipher]
    ELSE [status |-> "ok",
          obj    |-> [p_          |-> p,
                      alive       |-> TRUE,
                      level_      |-> level,
                      trunc_m_    |-> trunc_m,
                      master_key_ |-> <<>>,
                      rk_gen_     |-> [nonce_ |-> <<>>, rounds_ |-> level]]]

\* YuSCipher::YuSCipher(p, level, trunc_m): the member initialiser sbox_(p)
\* runs first (and throws unless p % 3 = 2), then the three checks of the body.
YuSCipher_ctor(p, level, trunc_m) ==
    IF ~SBox_ctor_ok(p) THEN [status |-> "invalid_argument", obj |-> NoCipher]
    ELSE IF ~is_p_2mod3(p) THEN [status |-> "invalid_argument", obj |-> NoCipher]
    ELSE IF trunc_m > 36 THEN [status |-> "invalid_argument", obj |-> NoCipher]
    ELSE IF p < 2 ^ 16 THEN [status |-> "invalid_argument", obj |-> NoCipher]
    ELSE [status |-> "ok",
          obj    |-> [p_          |-> p,
                      alive       |-> TRUE,
                      level_      |-> level,
                      trunc_m_    |-> trunc_m,
                      master_key_ |-> <<>>,
                      rk_gen_     |-> [nonce_ |-> <<>>, rounds_ |-> level]]]

\* init that stores the key before it checks its length
YuSCipher_init_stores_first(c, master_key, nonce) ==
    IF Len(master_key) # 36
    THEN [status |-> "invalid_argument", obj |-> [c EXCEPT !.master_key_ = master_key]]
    ELSE [status |-> "ok",
          obj    |-> [c EXCEPT !.master_key_ = master_key,
                               !.rk_gen_ = [nonce_ |-> nonce, rounds_ |-> c.level_]]]

\* init that keeps the round key generator of an instance that has one with a
\* nonce
YuSCipher_init_keeps_nonce(c, master_key, nonce) ==
    IF Len(master_key) # 36 THEN [status |-> "invalid_argument", obj |-> c]
    ELSE [status |-> "ok",
          obj    |-> [c EXCEPT !.master_key_ = master_key,
                               !.rk_gen_ = IF c.rk_gen_.nonce_ = <<>>
                                           THEN [nonce_ |-> nonce, rounds_ |-> c.level_]
                                           ELSE c.rk_gen_]]

\* YuSCipher::init(master_key, nonce) on the instance c
YuSCipher_init(c, master_key, nonce) ==
    IF Len(master_key) # 36 THEN [status |-> "invalid_argument", obj |-> c]
    ELSE [status |-> "ok",
          obj    |-> [c EXCEPT !.master_key_ = master_key,
                               !.rk_gen_ = [nonce_ |-> nonce, rounds_ |-> c.level_]]]

\* YuSCipher::round_transform(state, round_key): AK(LP(SL(state))); the S-box
\* layer is the free function and goes through the static S-box st.
round_transform(c, state, round_key, st) ==
    LET AfterSBoxLayer(sl) ==
            LET linear_out == LinearLayer_apply(sl.res.out, c.p_).out
                ak_out     == add_round_key(linear_out, round_key, c.p_).out
            IN  [state |-> ak_out, st |-> sl.st]
    IN  AfterSBoxLayer(apply_sbox_layer(state, c.p_, st))

\* truncate that drops one element too many
truncate_skips_one(c, state) ==
    IF Len(state) # 36 THEN InvalidArgument
    ELSE Ok(SubSeq(state, c.trunc_m_ + 2, 36))

\* YuSCipher::truncate(state)
truncate(c, state) ==
    IF Len(state) # 36 THEN InvalidArgument
    ELSE Ok(SubSeq(state, c.trunc_m_ + 1, 36))

\* YuSCipher::key_whitening(state, block_index)
key_whitening(c, state, block_index) ==
    LET rc0 == generate_round_constant(c.rk_gen_.nonce_, 0, block_index, c.p_)
        rk0 == generate_round_key(c.master_key_, rc0, c.p_).out
    IN  add_round_key(state, rk0, c.p_).out

RECURSIVE RoundLoop(_, _, _, _, _, _)
\* the loop over r = 1 .. rounds of generate_keystream, for block j
RoundLoop(c, j, r, rounds, state, st) ==
    IF r > rounds THEN [state |-> state, st |-> st]
    ELSE LET rc == generate_round_constant(c.rk_gen_.nonce_, r, j, c.p_)
             rk == generate_round_key(c.master_key_, rc, c.p_).out
             NextRound(rt) ==
                 IF Evaluated(rt.state)
                 THEN RoundLoop(c, j, r + 1, rounds, rt.state, rt.st)
                 ELSE rt
         IN  NextRound(round_transform(c, state, rk, st))

\* The body of the loop over j of generate_keystream: counter vector, key
\* whitening, the rounds, the final linear layer and the truncation.
generate_block(c, j, st) ==
    LET cv    == [k \in 1 .. 36 |-> mod(k + j, c.p_)]
        state == key_whitening(c, cv, j)
        AfterRounds(rl) ==
            LET final_linear == LinearLayer_apply(rl.state, c.p_).out
                block        == truncate(c, final_linear).out
            IN  [st |-> rl.st, block |-> block]
    IN  AfterRounds(RoundLoop(c, j, 1, c.level_, state, st))

RECURSIVE BlockLoop(_, _, _, _, _)
\* the loop over j = 0 .. block_count-1 of generate_keystream
BlockLoop(c, j, block_count, keystream, st) ==
    IF j >= block_count THEN [st |-> st, keystream |-> keystream]
    ELSE LET Insert(b) ==
                 LET next == keystream \o b.block
                 IN  IF Evaluated(next)
                     THEN BlockLoop(c, j + 1, block_count, next, b.st)
                     ELSE [st |-> b.st, keystream |-> next]
         IN  Insert(generate_block(c, j, st))

\* generate_keystream that looks at the key only when it has a block to emit
generate_keystream_checks_late(c, block_count, st) ==
    IF block_count > 0 /\ c.master_key_ = <<>>
    THEN [res |-> [status |-> "runtime_error", out |-> <<>>], st |-> st]
    ELSE LET Return(bl) == [res |-> Ok(bl.keystream), st |-> bl.st]
         IN  Return(BlockLoop(c, 0, block_count, <<>>, st))

\* YuSCipher::generate_keystream(block_count) on the instance c, called when
\* the static S-box of apply_sbox_layer is st
generate_keystream(c, block_count, st) ==
    IF c.master_key_ = <<>>
    THEN [res |-> [status |-> "runtime_error", out |-> <<>>], st |-> st]
    ELSE LET Return(bl) == [res |-> Ok(bl.keystream), st |-> bl.st]
         IN  Return(BlockLoop(c, 0, block_count, <<>>, st))

----------------------------------------------------------------------------
(* The process: the static S-box of apply_sbox_layer, one cipher object at  *)
(* a time (constructing a new one replaces it), and the last call made.     *)

MaxBlocks ==
    2

Ones ==
    [k \in 1 .. 36 |-> 1]

Ramp ==
    [k \in 1 .. 36 |-> k]

\* (p, level, trunc_m) passed to the constructor: three it accepts, and one
\* for each of its three checks to reject.
CipherConfigs ==
    { <<65537, SEC80, 12>>, <<65537, SEC128, 0>>, <<65543, SEC80, 36>>,
      <<65536, SEC80, 12>>, <<65534, SEC80, 12>>, <<65537, SEC128, 37>> }

\* (master_key, nonce) passed to init; the last two keys are one element
\* short and one element long.
Keyings ==
    { <<Ones, <<1, 2, 3, 4>>>>,
      <<Ramp, <<>>>>,
      <<[k \in 1 .. 35 |-> 1], <<9>>>>,
      <<[k \in 1 .. 37 |-> 1], <<1, 2, 3, 4>>>> }

\* (state, p) passed to apply_sbox_layer directly
LayerCalls ==
    { <<Ramp, 5>>, <<Ramp, 65537>>, <<Ramp, 3>>, <<[k \in 1 .. 35 |-> k], 5>> }

Init ==
    /\ sbox_static = NoSBox
    /\ cipher = NoCipher
    /\ call = [op |-> "none"]

\* Each action binds the result of the call it models with \E over a
\* singleton, so that the call is evaluated once.

\* History kept in the call record: an init call has succeeded on the
\* instance that exists now.  c is the record of the call before.
InitSucceeded(c) ==
    c.op \in {"construct", "init", "generate_keystream", "apply_sbox_layer"} /\ c.inited

\* YuSCipher y(p, level, trunc_m)
Construct(p, level, trunc_m) ==
    \E r \in {YuSCipher_ctor(p, level, trunc_m)} :
        /\ cipher' = r.obj
        /\ call' = [p |-> p, status |-> r.status, level |-> level,
                    trunc_m |-> trunc_m, op |-> "construct",
                    inited |-> FALSE]
        /\ UNCHANGED sbox_static

\* y.init(master_key, nonce)
InitCipher(master_key, nonce) ==
    /\ cipher.alive
    /\ \E r \in {YuSCipher_init(cipher, master_key, nonce)} :
        /\ cipher' = r.obj
        /\ call' = [status |-> r.status, master_key |-> master_key,
                    nonce |-> nonce, op |-> "init",
                    inited |-> (r.status = "ok" \/ InitSucceeded(call)), key_len |-> Len(master_key), nonce_len |-> Len(nonce),
                    rekeyed |-> (cipher.master_key_ # <<>>)]
    /\ UNCHANGED sbox_static

\* What a generate_keystream call records of the call before it: the block
\* count and output of that call when it was a successful generate_keystream
\* on the same object, NoPrev otherwise.
NoPrev ==
    [n |-> 0 - 1, out |-> <<>>]

PrevOf(c) ==
    IF c.op = "generate_keystream" /\ c.status = "ok"
    THEN [n |-> c.n, out |-> c.out]
    ELSE NoPrev

\* generate_keystream that gives its key away: the instance is left without
\* a key after a call that emitted a block
GenerateKeystream_moves_key(n) ==
    /\ cipher.alive
    /\ \E r \in {generate_keystream(cipher, n, sbox_static)} :
        /\ call' = [n |-> n, status |-> r.res.status,
                    out |-> r.res.out, op |-> "generate_keystream",
                    inited |-> InitSucceeded(call), prev |-> PrevOf(call)]
        /\ sbox_static' = r.st
        /\ cipher' = IF r.res.status = "ok" /\ n > 0
                     THEN [cipher EXCEPT !.master_key_ = <<>>]
                     ELSE cipher

\* y.generate_keystream(n)
GenerateKeystream(n) ==
    /\ cipher.alive
    /\ \E r \in {generate_keystream(cipher, n, sbox_static)} :
        /\ call' = [n |-> n, status |-> r.res.status,
                    out |-> r.res.out, op |-> "generate_keystream",
                    inited |-> InitSucceeded(call), prev |-> PrevOf(call)]
        /\ sbox_static' = r.st
    /\ UNCHANGED cipher

\* apply_sbox_layer(state, p) called directly
SBoxLayer(state, p) ==
    \E r \in {apply_sbox_layer(state, p, sbox_static)} :
        /\ call' = [p |-> p, state |-> state, status |-> r.res.status,
                    out |-> r.res.out, op |-> "apply_sbox_layer",
                    inited |-> InitSucceeded(call)]
        /\ sbox_static' = r.st
        /\ UNCHANGED cipher

Next ==
    \/ \E cfg \in CipherConfigs : Construct(cfg[1], cfg[2], cfg[3])
    \/ \E ky \in Keyings : InitCipher(ky[1], ky[2])
    \/ \E n \in 0 .. MaxBlocks : GenerateKeystream(n)
    \/ \E lc \in LayerCalls : SBoxLayer(lc[1], lc[2])

Spec ==
    Init /\ [][Next]_vars

----------------------------------------------------------------------------
(* Properties of the keystream engine, checked under Spec *)

GenOk ==
    call.op = "generate_keystream" /\ call.status = "ok"

\* the elements of one output block
BlockWidth ==
    36 - cipher.trunc_m_

IsPrefixOf(s, t) ==
    Len(s) <= Len(t) /\ SubSeq(t, 1, Len(s)) = s

\* C2: determinism.  The output of generate_keystream(n) is fixed by
\* (p, L, m, K, N, n): a call made after whatever this process did before
\* returns what the same call returns in a process that has made no earlier
\* call (static S-box not yet constructed).
C2_Determinism ==
    GenOk => call.out = generate_keystream(cipher, call.n, NoSBox).res.out

\* C3: the block counter.  After generate_keystream(a), generate_keystream(b) on the
\* same object continues at block a, so the two outputs concatenated are the
\* output of generate_keystream(a + b).
C3_CounterAdvances ==
    (GenOk /\ call.prev.n >= 0)
        => call.prev.out \o call.out
             = generate_keystream(cipher, call.prev.n + call.n, sbox_static).res.out

\* C4: generate_keystream(n) on an initialised cipher returns exactly
\* n * (36 - m) elements, each in [0, p).
C4_KeystreamLength ==
    GenOk => /\ Len(call.out) = call.n * (36 - cipher.trunc_m_)
             /\ \A k \in 1 .. Len(call.out) :
                    call.out[k] >= 0 /\ call.out[k] < cipher.p_

\* one block at m = 12: 24 elements
C4_Witness ==
    /\ GenOk
    /\ call.n = 1
    /\ cipher.trunc_m_ = 12
    /\ Len(call.out) = 24

\* C5: block independence.  The output of generate_keystream(n), n >= 1, is
\* the in-order concatenation of the blocks j = 0 .. n-1, block j being fixed
\* by (p, L, m, K, N, j) alone: it is the block the loop body produces for
\* (instance, j) in a process that has made no earlier call.  The first
\* 36 - m elements are the output of generate_keystream(1), and the output is
\* a prefix of the output of generate_keystream(n + 1).
C5_BlockIndependence ==
    (GenOk /\ call.n >= 1)
        => /\ \A j \in 0 .. call.n - 1 :
                SubSeq(call.out, j * BlockWidth + 1, (j + 1) * BlockWidth)
                  = generate_block(cipher, j, NoSBox).block
           /\ SubSeq(call.out, 1, BlockWidth)
                = generate_keystream(cipher, 1, sbox_static).res.out
           /\ IsPrefixOf(call.out,
                         generate_keystream(cipher, call.n + 1, sbox_static).res.out)

\* Within one process the blocks do concatenate: with the static S-box the
\* process holds after the call, block j of the output is the block of
\* (instance, j), whatever n is.
BlocksConcatenateInProcess ==
    (GenOk /\ call.n >= 1)
        => \A j \in 0 .. call.n - 1 :
             SubSeq(call.out, j * BlockWidth + 1, (j + 1) * BlockWidth)
               = generate_block(cipher, j, sbox_static).block

\* C7: apply_sbox_layer(state, p) applies, to each of the 12 triples, the
\* S-box over the modulus p of that call, whatever calls came before.
C7_LayerUsesCallModulus ==
    (call.op = "apply_sbox_layer" /\ call.status = "ok" /\ SBox_ctor_ok(call.p))
        => \A k \in 0 .. 11 :
             SubSeq(call.out, 3 * k + 1, 3 * k + 3)
               = SBox_apply(call.p, SubSeq(call.state, 3 * k + 1, 3 * k + 3)).out

----------------------------------------------------------------------------
(* The linear layer on its own: one call of LinearLayer::apply.  The       *)
(* functions of the sections below keep nothing between calls, so each of  *)
(* their specifications makes one call from the initial state.             *)

\* state vectors passed to apply: multiples of the unit vectors, constant and
\* ramp vectors, entries of either sign, entries above the modulus, and
\* vectors that are not 36 long
LinearStates ==
    { [k \in 1 .. 36 |-> IF k = j THEN v ELSE 0] : j \in 1 .. 36, v \in {1, 0 - 3, 70000} }
      \cup { Ones, Ramp, [k \in 1 .. 36 |-> 0 - k],
             [k \in 1 .. 35 |-> 1], [k \in 1 .. 37 |-> 1], <<>> }

LinearModuli ==
    {2, 5, 65537}

\* LinearLayer ll; ll.apply(state, p)
LinearApply(state, p) ==
    \E r \in {LinearLayer_apply(state, p)} :
        /\ call.op = "none"
        /\ call' = [p |-> p, state |-> state, status |-> r.status,
                    out |-> r.out, op |-> "linear_apply"]
        /\ UNCHANGED <<sbox_static, cipher>>

NextLinear ==
    \E state \in LinearStates, p \in LinearModuli : LinearApply(state, p)

SpecLinear ==
    Init /\ [][NextLinear]_vars

RECURSIVE PlainRowSum(_, _, _)
\* the sum of state[j] over the columns j >= col with matrix_[row][j] = 1
PlainRowSum(row, state, col) ==
    IF col = StateLen THEN 0
    ELSE (IF matrix_(row, col) = 1 THEN At(state, col) ELSE 0)
           + PlainRowSum(row, state, col + 1)

\* C1: apply(state, p) is the matrix-vector product: output[i] is the sum of
\* state[j] over the columns j with M[i][j] = 1, reduced mod p, for every row.
C1_PlainProduct ==
    (call.op = "linear_apply" /\ call.status = "ok")
        => \A row \in 0 .. StateLen - 1 :
             At(call.out, row) = PlainRowSum(row, call.state, 0) % call.p

\* The inner loop of apply, summarised by LoopCount in InnerLoop, is the loop
\* run bit by bit: both give the same row sums on every call.
InnerLoopAgrees ==
    (call.op = "linear_apply" /\ call.status = "ok")
        => \A row \in 0 .. StateLen - 1 :
             At(call.out, row) = ApplyGroupsBitwise(row, call.state, call.p, 0, 0)

----------------------------------------------------------------------------
(* The S-box on its own: SBox s(p); s.apply(x) and s.is_permutation() *)

SBoxModuli ==
    {2, 5, 8, 11, 14, 65537, 65543, 3, 7, 65536}

\* the moduli below which every input triple of the field is tried
MaxFieldModulus ==
    11

\* inputs of apply for the modulus p: every triple of the field for small p,
\* and triples over values on both sides of 0 and of p
SBoxValues(p) ==
    {0 - p - 1, 0 - 1, 0, 1, 2, 3, p - 1, p + 2}

SBoxInputs(p) ==
    (IF p <= MaxFieldModulus THEN FieldTriples(p) ELSE {})
      \cup {<<x0, x1, x2>> : x0 \in SBoxValues(p), x1 \in SBoxValues(p), x2 \in SBoxValues(p)}
      \cup {<<1, 2>>}

\* SBox s(p); s.apply(x)
SBoxApply(p, x) ==
    \E r \in {IF SBox_ctor_ok(p) THEN SBox_apply(p, x) ELSE InvalidArgument} :
        /\ call.op = "none"
        /\ call' = [p |-> p, x |-> x, status |-> r.status,
                    out |-> r.out,
                    constructed |-> SBox_ctor_ok(p), op |-> "sbox_apply"]
        /\ UNCHANGED <<sbox_static, cipher>>

\* SBox s(p); s.is_permutation()
SBoxIsPermutation(p) ==
    /\ call.op = "none"
    /\ call' = IF SBox_ctor_ok(p)
               THEN [p |-> p, status |-> "ok", out |-> SBox_is_permutation(p),
                     constructed |-> TRUE, op |-> "is_permutation"]
               ELSE [p |-> p, status |-> "invalid_argument", out |-> FALSE,
                     constructed |-> FALSE, op |-> "is_permutation"]
    /\ UNCHANGED <<sbox_static, cipher>>

NextSBox ==
    \/ \E p \in SBoxModuli : \E x \in SBoxInputs(p) : SBoxApply(p, x)
    \/ \E p \in SBoxModuli : SBoxIsPermutation(p)

SpecSBox ==
    Init /\ [][NextSBox]_vars

\* trial division, for n below 10^6
IsPrime(n) ==
    n >= 2 /\ \A d \in 2 .. (IF n <= 1000 THEN n - 1 ELSE 1000) : d * d > n \/ n % d # 0

RECURSIVE RefMulMod(_, _, _)
\* (a * b) mod p for b >= 0, by doubling; a % p is the non-negative residue
RefMulMod(a, b, p) ==
    IF b = 0 THEN 0
    ELSE LET h == RefMulMod(a, b \div 2, p)
         IN  (2 * h + (IF b % 2 = 1 THEN a % p ELSE 0)) % p

\* (a * b) mod p for operands of either sign
RefProduct(a, b, p) ==
    IF b >= 0 THEN RefMulMod(a, b, p) ELSE (p - RefMulMod(a, 0 - b, p)) % p

SBoxApplied ==
    call.op = "sbox_apply" /\ call.status = "ok"

\* C6: for every accepted p and every input, apply returns
\* (x0 mod p, (x0*x2 + x1) mod p, (-x0*x1 + x0*x2 + x2) mod p), every component
\* in [0, p), also when the third value is negative before the reduction;
\* apply(1, 2, 3) is (1, 5, 4) reduced mod p.
C6_SBoxFormula ==
    SBoxApplied
        => LET p  == call.p
               x0 == call.x[1]
               x1 == call.x[2]
               x2 == call.x[3]
           IN  /\ call.out = << x0 % p,
                               (RefProduct(x0, x2, p) + x1) % p,
                               (p - RefProduct(x0, x1, p) + RefProduct(x0, x2, p) + x2) % p >>
               /\ \A k \in 1 .. 3 : call.out[k] >= 0 /\ call.out[k] < p
               /\ call.x = <<1, 2, 3>> => call.out = <<1, 5 % p, 4 % p>>

\* -x0*x1 + x0*x2 + x2 = -6 + 2 + 1 = -3 before the reduction
C6_Witness ==
    /\ SBoxApplied
    /\ call.p = 65537
    /\ call.x = <<2, 3, 1>>
    /\ call.out = <<2, 5, 65534>>

\* apply has run on a triple of the field of a small prime
InField ==
    /\ SBoxApplied
    /\ IsPrime(call.p)
    /\ call.p <= MaxFieldModulus
    /\ \A k \in 1 .. 3 : call.x[k] >= 0 /\ call.x[k] < call.p

\* C8: for a prime p = 2 mod 3, apply is injective on [0, p)^3, hence a
\* bijection of it: no other triple of the field has the output of this one.
C8_SBoxBijective ==
    InField
        => \A y \in FieldTriples(call.p) :
             SBox_apply(call.p, y).out = call.out => y = call.x

C8_Witness ==
    /\ InField
    /\ call.p = 11
    /\ call.x = <<3, 7, 10>>

\* C9: is_permutation() is true for every prime p = 2 mod 3, on the branch
\* for p > 1000 and on the exhaustive branch.
C9_IsPermutationTrue ==
    (call.op = "is_permutation" /\ call.status = "ok" /\ IsPrime(call.p))
        => call.out = TRUE

\* the exhaustive branch has run
C9_Witness ==
    /\ call.op = "is_permutation"
    /\ call.status = "ok"
    /\ call.p = 11
    /\ call.out = TRUE

----------------------------------------------------------------------------
(* The round-key schedule on its own *)

\* the third nonce makes the XOF stand-in return, for round 3 of block 0, a
\* first 8-byte group that is a multiple of 65543
ScheduleNonces ==
    {<<>>, <<1, 2, 3, 4>>, <<0, 19>>}

ScheduleModuli ==
    {2, 5, 65537, 65543}

\* RoundKeyGenerator g(nonce, rounds); g.generate_round_constant(i, j, p)
RoundConstant(nonce, i, j, p) ==
    /\ call.op = "none"
    /\ call' = [p |-> p, i |-> i,
                out |-> generate_round_constant(nonce, i, j, p), j |-> j, nonce |-> nonce,
                op |-> "generate_round_constant"]
    /\ UNCHANGED <<sbox_static, cipher>>

NextSchedule ==
    \E nonce \in ScheduleNonces, i \in 0 .. SEC128, j \in 0 .. MaxBlocks,
       p \in ScheduleModuli : RoundConstant(nonce, i, j, p)

SpecSchedule ==
    Init /\ [][NextSchedule]_vars

\* C10: generate_round_constant returns 36 elements, each non-zero and
\* smaller than p.
C10_RoundConstantNonZero ==
    call.op = "generate_round_constant"
        => /\ Len(call.out) = 36
           /\ \A k \in 1 .. 36 : call.out[k] # 0 /\ call.out[k] > 0 /\ call.out[k] < call.p

\* the residue of group k before the replacement
RawResidue(k) ==
    LET input    == call.nonce \o LE32(call.j) \o LE32(call.i)
        rc_bytes == shake128_xof(input, 36 * 8)
    IN  BytesModP(SubSeq(rc_bytes, (k - 1) * 8 + 1, k * 8), call.p, 1, 0)

\* a group reduced to 0 modulo a cipher-sized prime and came out as 1
C10_Witness ==
    /\ call.op = "generate_round_constant"
    /\ call.p = 65543
    /\ \E k \in 1 .. 36 : RawResidue(k) = 0 /\ call.out[k] = 1

----------------------------------------------------------------------------
(* generate_round_key and add_round_key on their own: one call of either *)

Twos ==
    [k \in 1 .. 36 |-> 2]

\* vectors passed to the two functions: small and large entries, entries of
\* either sign, a round constant of the schedule, and vectors that are not
\* 36 long
RoundKeyVectors ==
    { Ones, Twos, Ramp,
      [k \in 1 .. 36 |-> 0 - k],
      [k \in 1 .. 36 |-> 65536 + k],
      generate_round_constant(<<1, 2, 3, 4>>, 0, 0, 65537),
      [k \in 1 .. 35 |-> 1], [k \in 1 .. 37 |-> 1], <<>> }

RoundKeyModuli ==
    {2, 5, 65537, 65543}

\* RoundKeyGenerator g(nonce, rounds); g.generate_round_key(master_key, rc, p)
GenerateRoundKey(master_key, round_constant, p) ==
    \E r \in {generate_round_key(master_key, round_constant, p)} :
        /\ call.op = "none"
        /\ call' = [p |-> p, status |-> r.status,
                    out |-> r.out, master_key |-> master_key,
                    round_constant |-> round_constant, op |-> "generate_round_key"]
        /\ UNCHANGED <<sbox_static, cipher>>

\* add_round_key(state, round_key, p)
AddRoundKey(state, round_key, p) ==
    \E r \in {add_round_key(state, round_key, p)} :
        /\ call.op = "none"
        /\ call' = [p |-> p, state |-> state,
                    status |-> r.status, out |-> r.out,
                    round_key |-> round_key, op |-> "add_round_key"]
        /\ UNCHANGED <<sbox_static, cipher>>

NextRoundKey ==
    \/ \E master_key \in RoundKeyVectors, round_constant \in RoundKeyVectors,
          p \in RoundKeyModuli : GenerateRoundKey(master_key, round_constant, p)
    \/ \E state \in RoundKeyVectors, round_key \in RoundKeyVectors,
          p \in RoundKeyModuli : AddRoundKey(state, round_key, p)

SpecRoundKey ==
    Init /\ [][NextRoundKey]_vars

\* every entry of v lies in [0, p)
Reduced(v, p) ==
    \A k \in 1 .. Len(v) : v[k] >= 0 /\ v[k] < p

\* C11: for a 36-element master key and a 36-element round constant,
\* generate_round_key returns the 36 elements (K[i] * rc[i]) mod p, each in
\* [0, p); for K all ones and rc already reduced it returns rc.
C11_RoundKeyProduct ==
    (/\ call.op = "generate_round_key"
     /\ Len(call.master_key) = 36
     /\ Len(call.round_constant) = 36)
        => /\ call.status = "ok"
           /\ Len(call.out) = 36
           /\ \A k \in 1 .. 36 :
                 call.out[k] = RefProduct(call.master_key[k], call.round_constant[k], call.p)
           /\ Reduced(call.out, call.p)
           /\ (call.master_key = Ones /\ Reduced(call.round_constant, call.p))
                 => call.out = call.round_constant

\* key entries 65537 .. 65572 times 1 .. 36 modulo 65537: the first product
\* is 0, the second 65538 * 2 = 2
C11_Witness ==
    /\ call.op = "generate_round_key"
    /\ call.status = "ok"
    /\ call.p = 65537
    /\ call.master_key[1] = 65537
    /\ call.round_constant = Ramp
    /\ call.out[1] = 0
    /\ call.out[2] = 2

\* C12: for two 36-element vectors, add_round_key returns the 36 elements
\* (state[i] + rk[i]) mod p, each in [0, p); AK([1]x36, [2]x36, p) = [3]x36
\* for a modulus above 3.
C12_AddRoundKeySum ==
    (/\ call.op = "add_round_key"
     /\ Len(call.state) = 36
     /\ Len(call.round_key) = 36)
        => /\ call.status = "ok"
           /\ Len(call.out) = 36
           /\ \A k \in 1 .. 36 :
                 call.out[k] = (call.state[k] + call.round_key[k]) % call.p
           /\ Reduced(call.out, call.p)
           /\ (call.state = Ones /\ call.round_key = Twos /\ call.p > 3)
                 => call.out = [k \in 1 .. 36 |-> 3]

\* a sum that is negative before the reduction: -1 + -1 modulo 65543
C12_Witness ==
    /\ call.op = "add_round_key"
    /\ call.status = "ok"
    /\ call.p = 65543
    /\ call.state[1] = 0 - 1
    /\ call.round_key[1] = 0 - 1
    /\ call.out[1] = 65541

----------------------------------------------------------------------------
(* One block of generate_keystream, statement by statement: the body of the *)
(* loop over j with the calls it makes counted.  The call record holds the  *)
(* position in the body (pc), the locals r, state and rk, and the counts.   *)

\* (p, level, trunc_m) of the instances that run a block
BlockConfigs ==
    { <<65537, SEC80, 12>>, <<65537, SEC128, 0>>, <<65543, SEC128, 36>> }

\* the loop test r < rounds, one round short
MoreRounds_exclusive(r, rounds) ==
    r < rounds

\* the test of the loop over r: r <= rounds
MoreRounds(r, rounds) ==
    r <= rounds

\* YuSCipher y(p, level, trunc_m); y.init(master_key, nonce); and
\* generate_keystream enters its loop body for block j: cv is built
BeginBlock(p, level, trunc_m, master_key, nonce, j) ==
    \E made \in {YuSCipher_ctor(p, level, trunc_m)} :
        /\ call.op = "none"
        /\ made.status = "ok"
        /\ \E keyed \in {YuSCipher_init(made.obj, master_key, nonce)} :
            /\ keyed.status = "ok"
            /\ cipher' = keyed.obj
            /\ call' = [state |-> [k \in 1 .. 36 |-> mod(k + j, p)], out |-> <<>>, j |-> j, r |-> 0,
                        rounds |-> keyed.obj.level_,
                        rk |-> <<>>,
                        op |-> "block", pc |-> "whitening",
                        sbox_layers |-> 0, linear_layers |-> 0, round_keys |-> 0]
        /\ UNCHANGED sbox_static

\* state = key_whitening(cv, j): derives the round key of round 0, then r = 1
Whitening ==
    /\ call.op = "block" /\ call.pc = "whitening"
    /\ call' = [call EXCEPT !.state = key_whitening(cipher, call.state, call.j),
                            !.round_keys = @ + 1,
                            !.r = 1,
                            !.pc = "round"]
    /\ UNCHANGED <<sbox_static, cipher>>

\* r <= rounds holds: rc = generate_round_constant(r, j, p_) and
\* rk = generate_round_key(master_key_, rc, p_)
DeriveRoundKey ==
    /\ call.op = "block" /\ call.pc = "round"
    /\ MoreRounds(call.r, call.rounds)
    /\ \E rc \in {generate_round_constant(cipher.rk_gen_.nonce_, call.r, call.j, cipher.p_)} :
          call' = [call EXCEPT !.rk = generate_round_key(cipher.master_key_, rc, cipher.p_).out,
                               !.round_keys = @ + 1,
                               !.pc = "sbox_layer"]
    /\ UNCHANGED <<sbox_static, cipher>>

\* round_transform: sbox_out = apply_sbox_layer(state, p_)
SBoxLayerStep ==
    /\ call.op = "block" /\ call.pc = "sbox_layer"
    /\ \E sl \in {apply_sbox_layer(call.state, cipher.p_, sbox_static)} :
        /\ call' = [call EXCEPT !.state = sl.res.out,
                                !.sbox_layers = @ + 1,
                                !.pc = "linear_layer"]
        /\ sbox_static' = sl.st
    /\ UNCHANGED cipher

\* round_transform: linear_out = linear_layer_.apply(sbox_out, p_)
LinearLayerStep ==
    /\ call.op = "block" /\ call.pc = "linear_layer"
    /\ call' = [call EXCEPT !.state = LinearLayer_apply(call.state, cipher.p_).out,
                            !.linear_layers = @ + 1,
                            !.pc = "add_round_key"]
    /\ UNCHANGED <<sbox_static, cipher>>

\* round_transform: return add_round_key(linear_out, round_key, p_); ++r
AddRoundKeyStep ==
    /\ call.op = "block" /\ call.pc = "add_round_key"
    /\ call' = [call EXCEPT !.state = add_round_key(call.state, call.rk, cipher.p_).out,
                            !.r = @ + 1,
                            !.pc = "round"]
    /\ UNCHANGED <<sbox_static, cipher>>

\* r <= rounds fails: final_linear = linear_layer_.apply(state, p_)
FinalLinearStep ==
    /\ call.op = "block" /\ call.pc = "round"
    /\ ~MoreRounds(call.r, call.rounds)
    /\ call' = [call EXCEPT !.state = LinearLayer_apply(call.state, cipher.p_).out,
                            !.linear_layers = @ + 1,
                            !.pc = "truncate"]
    /\ UNCHANGED <<sbox_static, cipher>>

\* block = truncate(final_linear); the block is appended to the keystream
TruncateStep ==
    /\ call.op = "block" /\ call.pc = "truncate"
    /\ call' = [call EXCEPT !.out = truncate(cipher, call.state).out,
                            !.pc = "done"]
    /\ UNCHANGED <<sbox_static, cipher>>

NextBlock ==
    \/ \E cfg \in BlockConfigs, ky \in {<<Ones, <<1, 2, 3, 4>>>>, <<Ramp, <<>>>>},
          j \in 0 .. MaxBlocks :
            BeginBlock(cfg[1], cfg[2], cfg[3], ky[1], ky[2], j)
    \/ Whitening
    \/ DeriveRoundKey
    \/ SBoxLayerStep
    \/ LinearLayerStep
    \/ AddRoundKeyStep
    \/ FinalLinearStep
    \/ TruncateStep

SpecBlock ==
    Init /\ [][NextBlock]_vars

BlockDone ==
    call.op = "block" /\ call.pc = "done"

\* C13: round-count coupling.  A finished block has made exactly R S-box-layer
\* calls, R + 1 linear-layer applications and R + 1 round-key derivations,
\* with R = 5 for SEC80 and R = 6 for SEC128; no count is ever above these.
C13_RoundCounts ==
    /\ BlockDone
         => /\ cipher.level_ \in {SEC80, SEC128}
            /\ cipher.level_ = SEC80 => call.sbox_layers = 5
            /\ cipher.level_ = SEC128 => call.sbox_layers = 6
            /\ call.sbox_layers = cipher.level_
            /\ call.linear_layers = cipher.level_ + 1
            /\ call.round_keys = cipher.level_ + 1
    /\ call.op = "block"
         => /\ call.sbox_layers <= cipher.level_
            /\ call.linear_layers <= cipher.level_ + 1
            /\ call.round_keys <= cipher.level_ + 1

\* a SEC128 block has finished
C13_Witness ==
    /\ BlockDone
    /\ cipher.level_ = SEC128
    /\ call.sbox_layers = 6
    /\ call.linear_layers = 7
    /\ call.round_keys = 7

\* The statements taken one by one produce the block that generate_block,
\* used by generate_keystream above, computes in one piece.
BlockStepsAgree ==
    BlockDone => call.out = generate_block(cipher, call.j, NoSBox).block

----------------------------------------------------------------------------
(* The range of the linear layer's output, checked under SpecLinear *)

\* C14: for a 36-element input, with entries of any sign or size,
\* LinearLayer::apply returns exactly 36 entries, each in [0, p).
C14_LinearOutputRange ==
    (call.op = "linear_apply" /\ Len(call.state) = 36)
        => /\ call.status = "ok"
           /\ Len(call.out) = 36
           /\ Reduced(call.out, call.p)

\* an input of negative entries only, with an output that is not all zero
C14_Witness ==
    /\ call.op = "linear_apply"
    /\ call.status = "ok"
    /\ call.p = 65537
    /\ \A k \in 1 .. 36 : call.state[k] < 0
    /\ \E k \in 1 .. 36 : call.out[k] > 0
    /\ Reduced(call.out, call.p)

----------------------------------------------------------------------------
(* The life cycle of an instance: construction, init and the not-initialized *)
(* error, checked under Spec and, for the constructor, under SpecConstruct   *)

\* C15: on an instance on which no init call has succeeded,
\* generate_keystream(n) fails with the not-initialized error for every n,
\* n = 0 included, and returns no element; once an init call has succeeded on
\* the instance it never fails with that error.
C15_NotInitialized ==
    call.op = "generate_keystream"
        => IF call.inited
           THEN call.status # "runtime_error"
           ELSE call.status = "runtime_error" /\ call.out = <<>>

\* generate_keystream(0) has failed on an instance whose only init call failed
C15_Witness ==
    /\ call.op = "generate_keystream"
    /\ call.n = 0
    /\ ~call.inited
    /\ cipher.alive
    /\ call.status = "runtime_error"

\* arguments of the constructor: moduli on both sides of 2^16 in every
\* residue class modulo 3, small and negative moduli, and truncation widths
\* on both sides of 36
ConstructModuli ==
    (65530 .. 65545) \cup {0 - 4, 0 - 1, 0, 2, 5, 197, 131071, 131101}

ConstructWidths ==
    {0, 12, 35, 36, 37, 100}

NextConstruct ==
    \E p \in ConstructModuli, level \in {SEC80, SEC128}, trunc_m \in ConstructWidths :
        Construct(p, level, trunc_m)

SpecConstruct ==
    Init /\ [][NextConstruct]_vars

\* C16: YuSCipher(p, L, m) fails with invalid-argument if and only if p is
\* not 2 modulo 3, or p < 2^16, or m > 36.  When it fails no object exists;
\* otherwise the object holds (p, L, m).
C16_ConstructorRejects ==
    call.op = "construct"
        => /\ call.status \in {"ok", "invalid_argument"}
           /\ call.status = "invalid_argument"
                <=> (call.p % 3 # 2 \/ call.p < 65536 \/ call.trunc_m > 36)
           /\ call.status = "invalid_argument" => cipher = NoCipher
           /\ call.status = "ok"
                => /\ cipher.alive
                   /\ cipher.p_ = call.p
                   /\ cipher.level_ = call.level
                   /\ cipher.trunc_m_ = call.trunc_m

\* the smallest accepted modulus with the largest accepted width
C16_Witness ==
    /\ call.op = "construct"
    /\ call.status = "ok"
    /\ call.p = 65537
    /\ call.trunc_m = 36
    /\ cipher.alive

\* C17: init(K, N) fails with invalid-argument exactly when K does not have
\* 36 elements, whatever the length of N.  A failed init changes nothing:
\* the instance, with its stored key and nonce, and the S-box shared by the
\* process are those of before, which is all generate_keystream reads, and
\* generate_keystream(0) still fails, or still succeeds, as it did before.
C17_FailedInitChangesNothing ==
    [][ call'.op = "init"
          => /\ call'.status \in {"ok", "invalid_argument"}
             /\ call'.status = "invalid_argument" <=> call'.key_len # 36
             /\ call'.status = "invalid_argument"
                  => /\ cipher' = cipher
                     /\ sbox_static' = sbox_static
                     /\ generate_keystream(cipher', 0, sbox_static').res
                          = generate_keystream(cipher, 0, sbox_static).res ]_vars

\* an init with a 35-element key has failed on an initialised instance
C17_Witness ==
    /\ call.op = "init"
    /\ call.status = "invalid_argument"
    /\ call.key_len = 35
    /\ call.inited
    /\ Len(cipher.master_key_) = 36

----------------------------------------------------------------------------
(* The size checks of the four vector functions, on their own *)

\* vectors of 0, 1, 35, 36, 37 and 72 elements
ShapeVectors ==
    { Ones, Ramp, <<>>, <<7>>, [k \in 1 .. 35 |-> k], [k \in 1 .. 37 |-> k],
      [k \in 1 .. 72 |-> 1] }

ShapeModuli ==
    {5, 65537}

NextShapes ==
    \/ \E state \in ShapeVectors, p \in ShapeModuli : LinearApply(state, p)
    \/ \E state \in ShapeVectors, p \in ShapeModuli : SBoxLayer(state, p)
    \/ \E master_key \in ShapeVectors, round_constant \in ShapeVectors,
          p \in ShapeModuli : GenerateRoundKey(master_key, round_constant, p)
    \/ \E state \in ShapeVectors, round_key \in ShapeVectors,
          p \in ShapeModuli : AddRoundKey(state, round_key, p)

SpecShapes ==
    Init /\ [][NextShapes]_vars

\* C18: LinearLayer::apply, apply_sbox_layer, add_round_key and
\* generate_round_key each fail with invalid-argument, and produce no
\* output vector, whenever a vector passed to them does not have 36
\* elements; for the two functions that take two vectors, whenever either
\* one does not.
C18_InvalidShape ==
    LET Rejected == call.status = "invalid_argument" /\ call.out = <<>>
    IN  /\ (call.op \in {"linear_apply", "apply_sbox_layer"} /\ Len(call.state) # 36)
            => Rejected
        /\ (call.op = "add_round_key"
                /\ (Len(call.state) # 36 \/ Len(call.round_key) # 36))
            => Rejected
        /\ (call.op = "generate_round_key"
                /\ (Len(call.master_key) # 36 \/ Len(call.round_constant) # 36))
            => Rejected

\* add_round_key has rejected a 36-element state with a 35-element round key
C18_Witness ==
    /\ call.op = "add_round_key"
    /\ Len(call.state) = 36
    /\ Len(call.round_key) = 35
    /\ call.status = "invalid_argument"
    /\ call.out = <<>>

----------------------------------------------------------------------------
(* utils.cpp: generate_prime *)

\* mpz_nextprime(p, x): the least prime above x
RECURSIVE mpz_nextprime(_)
mpz_nextprime(x) ==
    IF IsPrime(x + 1) THEN x + 1 ELSE mpz_nextprime(x + 1)

\* the loop test with its two conditions joined by "and"
PrimeRejected_both(p) ==
    ~is_p_2mod3(p) /\ p < 2 ^ 16

\* the test of the do-while loop: !is_p_2mod3(p) || p < (1 << 16)
PrimeRejected(p) ==
    ~is_p_2mod3(p) \/ p < 2 ^ 16

\* the bit widths generate_prime is called with: 17 by default and in the
\* demo, 8 in FHEWrapperTest.MemoryTest
PrimeWidths ==
    {8, 17}

\* values mpz_urandomb(p, state, bits) can produce: every value of a width
\* of at most 8 bits; for wider draws, the values around 0, around 2^16 and
\* below 2^bits
UrandomDraws(bits) ==
    IF bits <= 8 THEN 0 .. (2 ^ bits - 1)
    ELSE { x \in (0 .. 30) \cup (65500 .. 65560) \cup ((2 ^ bits - 32) .. (2 ^ bits - 1)) :
             x < 2 ^ bits }

\* the draws of every width
PrimeDraws ==
    UNION { UrandomDraws(bits) : bits \in PrimeWidths }

\* mpz_nextprime and the loop test, tabulated once for the draws
NextPrimeOf ==
    [x \in PrimeDraws |-> mpz_nextprime(x)]

\* the draws of a width that lead out of the loop
AcceptedDraws ==
    [bits \in PrimeWidths |-> { x \in UrandomDraws(bits) : ~PrimeRejected(NextPrimeOf[x]) }]

\* generate_prime(bits) entered, RAND_bytes has given a seed: p is 0 and the
\* loop is about to run
CallGeneratePrime(bits) ==
    /\ call.op = "none"
    /\ call' = [p |-> 0, status |-> "running", op |-> "generate_prime",
                pc |-> "loop", bits |-> bits]
    /\ UNCHANGED <<sbox_static, cipher>>

\* generate_prime(bits) entered, RAND_bytes has failed: runtime_error
SeedFails(bits) ==
    /\ call.op = "none"
    /\ call' = [p |-> 0, status |-> "runtime_error", op |-> "generate_prime",
                pc |-> "done", bits |-> bits]
    /\ UNCHANGED <<sbox_static, cipher>>

\* mpz_urandomb(p, state, bits): p becomes the draw x
UrandomB(x) ==
    /\ call.op = "generate_prime"
    /\ call.pc = "loop"
    /\ x \in UrandomDraws(call.bits)
    /\ call' = [call EXCEPT !.p = x, !.pc = "drawn"]
    /\ UNCHANGED <<sbox_static, cipher>>

\* mpz_nextprime(p, p), then the test of the do-while loop
NextPrimeAndTest ==
    /\ call.op = "generate_prime"
    /\ call.pc = "drawn"
    /\ \E p \in {NextPrimeOf[call.p]} :
         call' = [call EXCEPT !.p = p,
                              !.pc = IF PrimeRejected(p) THEN "loop" ELSE "done",
                              !.status = IF PrimeRejected(p) THEN "running" ELSE "ok"]
    /\ UNCHANGED <<sbox_static, cipher>>

\* a draw whose next prime passes the loop test
AcceptedDraw ==
    /\ call.op = "generate_prime"
    /\ \E x \in AcceptedDraws[call.bits] : UrandomB(x)

NextGeneratePrime ==
    \/ \E bits \in PrimeWidths : CallGeneratePrime(bits)
    \/ \E bits \in PrimeWidths : SeedFails(bits)
    \/ \E x \in PrimeDraws : UrandomB(x)
    \/ NextPrimeAndTest

\* The loop body runs to its test, and the draws are fair: a draw that leads
\* out of the loop, possible at every iteration, is eventually made.
SpecPrime ==
    /\ Init
    /\ [][NextGeneratePrime]_vars
    /\ WF_vars(NextPrimeAndTest)
    /\ SF_vars(AcceptedDraw)

\* C19: generate_prime(bits) eventually returns for every bit width it is
\* called with, 17 and 8, when the draws are fair: the loop that draws,
\* takes the next prime and retries does not run forever.
C19_Terminates ==
    (call.op = "generate_prime") ~> (call.op = "generate_prime" /\ call.pc = "done")

\* with the default width of 17 bits the call does return
DefaultWidthTerminates ==
    (call.op = "generate_prime" /\ call.bits = 17)
        ~> (call.op = "generate_prime" /\ call.pc = "done")

\* with a width of 8 bits no iteration ever leaves the loop
NarrowWidthNeverReturns ==
    (call.op = "generate_prime" /\ call.bits = 8 /\ call.status # "runtime_error")
        => call.pc \in {"loop", "drawn"} /\ call.p <= 257

\* C20: a value p returned by generate_prime(bits) is prime, is 2 modulo 3
\* and is at least 2^16, so that SBox(p) and YuSCipher(p, L, m), m <= 36,
\* accept it.
C20_ReturnedPrime ==
    (call.op = "generate_prime" /\ call.pc = "done" /\ call.status = "ok")
        => /\ IsPrime(call.p)
           /\ call.p % 3 = 2
           /\ call.p >= 65536
           /\ SBox_ctor_ok(call.p)
           /\ \A level \in {SEC80, SEC128}, trunc_m \in {0, 12, 36} :
                 YuSCipher_ctor(call.p, level, trunc_m).status = "ok"

\* generate_prime(17) has returned 65537
C20_Witness ==
    /\ call.op = "generate_prime"
    /\ call.bits = 17
    /\ call.pc = "done"
    /\ call.status = "ok"
    /\ call.p = 65537

----------------------------------------------------------------------------
(* utils.cpp: mpz_to_bytes and bytes_to_mpz *)

\* mpz_sizeinbase(num, 2): the number of bits of |num|, 1 for 0
RECURSIVE mpz_sizeinbase2(_)
mpz_sizeinbase2(num) ==
    IF Abs(num) < 2 THEN 1 ELSE 1 + mpz_sizeinbase2(Abs(num) \div 2)

\* mpz_export(rop, nullptr, 1, 1, 0, 0, num): the bytes of |num|, most
\* significant first, as many as |num| needs and none for 0
RECURSIVE mpz_export(_)
mpz_export(num) ==
    IF Abs(num) = 0 THEN <<>>
    ELSE Append(mpz_export(Abs(num) \div 256), Abs(num) % 256)

\* mpz_to_bytes(num): a zero-filled vector of sizeinbase / 8 + 1 bytes whose
\* first bytes mpz_export overwrites
mpz_to_bytes(num) ==
    LET len   == mpz_sizeinbase2(num) \div 8 + 1
        words == mpz_export(num)
    IN  [k \in 1 .. len |-> IF k <= Len(words) THEN words[k] ELSE 0]

\* mpz_import(rop, count, 1, 1, 0, 0, bytes): the value of the bytes read
\* most significant first
RECURSIVE mpz_import(_, _, _)
mpz_import(bytes, k, acc) ==
    IF k > Len(bytes) THEN acc
    ELSE mpz_import(bytes, k + 1, acc * 256 + bytes[k])

\* bytes_to_mpz(bytes)
bytes_to_mpz(bytes) ==
    mpz_import(bytes, 1, 0)

\* integers passed to mpz_to_bytes: every value of up to 9 bits and values
\* around 2^15, 2^16 and 2^23
ByteValues ==
    (0 .. 520) \cup {32767, 32768, 65535, 65536, 65537, 8388607}

\* mpz_to_bytes(num)
MpzToBytes(num) ==
    /\ call.op = "none"
    /\ call' = [out |-> mpz_to_bytes(num), op |-> "mpz_to_bytes", num |-> num]
    /\ UNCHANGED <<sbox_static, cipher>>

\* bytes_to_mpz applied to the vector mpz_to_bytes has just returned; num
\* remembers what that vector was made from
BytesToMpz ==
    /\ call.op = "mpz_to_bytes"
    /\ call' = [out |-> bytes_to_mpz(call.out), bytes |-> call.out, op |-> "bytes_to_mpz",
                num |-> call.num]
    /\ UNCHANGED <<sbox_static, cipher>>

NextBytes ==
    \/ \E num \in ByteValues : MpzToBytes(num)
    \/ BytesToMpz

SpecBytes ==
    Init /\ [][NextBytes]_vars

\* C21: for every non-negative integer x, bytes_to_mpz(mpz_to_bytes(x)) = x,
\* values whose bit length is a multiple of 8, such as 255, included.
C21_RoundTrip ==
    call.op = "bytes_to_mpz" => call.out = call.num

\* the round trip is exact when the bit length is not a multiple of 8, and
\* multiplies by 256 when it is
RoundTripByBitLength ==
    call.op = "bytes_to_mpz"
        => call.out = IF mpz_sizeinbase2(call.num) % 8 = 0
                      THEN call.num * 256
                      ELSE call.num

----------------------------------------------------------------------------
(* The block as the composition CV, AK, (SL, LP, AK) x R, LP, truncation,  *)
(* written from the definitions of the layers and checked under SpecBlock  *)

\* AK(a, b): element-wise sum mod p
RefAK(a, b, p) ==
    [k \in 1 .. 36 |-> (a[k] + b[k]) % p]

\* SL(state): the S-box (x0, x0*x2 + x1, -x0*x1 + x0*x2 + x2) mod p on each
\* of the 12 triples
RefSL(state, p) ==
    [k \in 1 .. 36 |->
        LET t  == 3 * ((k - 1) \div 3)
            x0 == state[t + 1]
            x1 == state[t + 2]
            x2 == state[t + 3]
        IN  CASE (k - 1) % 3 = 0 -> x0 % p
              [] (k - 1) % 3 = 1 -> (RefProduct(x0, x2, p) + x1) % p
              [] OTHER -> (p - RefProduct(x0, x1, p) + RefProduct(x0, x2, p) + x2) % p]

\* LP(state): the product of the matrix with the state mod p when plain is
\* true, what LinearLayer::apply returns when it is false
RefLP(plain, state, p) ==
    IF plain THEN [k \in 1 .. 36 |-> PlainRowSum(k - 1, state, 0) % p]
    ELSE LinearLayer_apply(state, p).out

\* K (.) rc(r, j): the round constant is asked for round r of block j
RefRoundKey(K, N, r, j, p) ==
    LET rc == generate_round_constant(N, r, j, p)
    IN  [k \in 1 .. 36 |-> RefProduct(K[k], rc[k], p)]

RECURSIVE RefRounds(_, _, _, _, _, _, _, _)
\* state_r = AK(LP(SL(state_{r-1})), K (.) rc(r, j)) for r up to R
RefRounds(plain, p, R, K, N, j, r, state) ==
    IF r > R THEN state
    ELSE LET next == RefAK(RefLP(plain, RefSL(state, p), p), RefRoundKey(K, N, r, j, p), p)
         IN  IF Evaluated(next) THEN RefRounds(plain, p, R, K, N, j, r + 1, next)
             ELSE next

\* elements m .. 35 of LP(state_R), from CV_j[i] = ((i + 1) + j) mod p
ReferenceBlock(plain, p, R, m, K, N, j) ==
    LET cv     == [k \in 1 .. 36 |-> (k + j) % p]
        state0 == RefAK(cv, RefRoundKey(K, N, 0, j, p), p)
        Last(state_R) == SubSeq(RefLP(plain, state_R, p), m + 1, 36)
    IN  Last(RefRounds(plain, p, R, K, N, j, 1, state0))

\* C22: for every block index j the emitted block is the reference
\* composition: CV_j, whitening with K (.) rc(0, j), R rounds of S-box
\* layer, then linear layer, then addition of K (.) rc(r, j), a final linear
\* layer, and elements m .. 35 of the result; LP is the product with the
\* matrix.
C22_ReferenceComposition ==
    BlockDone
        => call.out = ReferenceBlock(TRUE, cipher.p_, cipher.level_, cipher.trunc_m_,
                                     cipher.master_key_, cipher.rk_gen_.nonce_, call.j)

\* The same composition with LinearLayer::apply in the place of the product
\* with the matrix is what the code emits: the order of the layers, the
\* counter vector, the arguments of the round constants and the truncation
\* are those of the reference.
CompositionOfCodeLayers ==
    BlockDone
        => call.out = ReferenceBlock(FALSE, cipher.p_, cipher.level_, cipher.trunc_m_,
                                     cipher.master_key_, cipher.rk_gen_.nonce_, call.j)

----------------------------------------------------------------------------
(* What generate_keystream and init leave behind, checked under Spec *)

\* C23: generate_keystream changes nothing of the instance (p, L, m, K, N),
\* whether it succeeds or fails, and a call with the same n as the
\* successful call just before it returns the same output: two successive
\* calls with n = 1 return the same block.
C23_GenerateKeystreamPure ==
    [][ call'.op = "generate_keystream"
          => /\ cipher' = cipher
             /\ (call.op = "generate_keystream" /\ call.status = "ok"
                    /\ call'.n = call.n)
                  => call'.status = "ok" /\ call'.out = call.out ]_vars

\* the second of two successive calls with n = 1 has returned the block of
\* the first
C23_Witness ==
    /\ GenOk
    /\ call.n = 1
    /\ call.prev.n = 1
    /\ Len(call.out) = 36 - cipher.trunc_m_
    /\ Len(call.out) > 0
    /\ call.out = call.prev.out

\* C24: every constructed instance holds a modulus that is 2 modulo 3 and
\* strictly above 2^16 and a truncation width of at most 36, in every state
\* it goes through; init and generate_keystream never change p, the security
\* level or m.
C24_ParametersInvariant ==
    [][ /\ cipher'.alive
          => /\ cipher'.p_ % 3 = 2
             /\ cipher'.p_ > 65536
             /\ cipher'.trunc_m_ <= 36
             /\ cipher'.level_ \in {SEC80, SEC128}
        /\ call'.op \in {"init", "generate_keystream"}
          => /\ cipher'.alive
             /\ cipher'.p_ = cipher.p_
             /\ cipher'.level_ = cipher.level_
             /\ cipher'.trunc_m_ = cipher.trunc_m_ ]_vars

\* an instance with m = 36 has been initialised and has generated
C24_Witness ==
    /\ GenOk
    /\ call.n > 0
    /\ cipher.p_ = 65543
    /\ cipher.trunc_m_ = 36
    /\ Len(cipher.master_key_) = 36

\* The instance a fresh YuSCipher(p, level, trunc_m) is after init(K, N)
FreshKeyed(p, level, trunc_m, K, N) ==
    YuSCipher_init(YuSCipher_ctor(p, level, trunc_m).obj, K, N).obj

\* C27: a successful init(K2, N2) leaves the instance equal, field by field, to
\* a fresh instance with the same (p, level, m) after init(K2, N2), whatever was
\* called before; and the generate_keystream(n) that follows it returns what
\* that fresh instance returns for the same n.
C27_ReinitReplacesKeyMaterial ==
    [][ /\ (call'.op = "init" /\ call'.status = "ok")
             => cipher' = FreshKeyed(cipher.p_, cipher.level_, cipher.trunc_m_,
                                     call'.master_key, call'.nonce)
        /\ (call.op = "init" /\ call.status = "ok" /\ call'.op = "generate_keystream")
             => LET fresh == FreshKeyed(cipher.p_, cipher.level_, cipher.trunc_m_,
                                        call.master_key, call.nonce)
                    ref   == generate_keystream(fresh, call'.n, sbox_static).res
                IN  call'.status = ref.status /\ call'.out = ref.out ]_vars

\* a second successful init has replaced an earlier key and nonce
C27_Witness ==
    /\ call.op = "init" /\ call.status = "ok" /\ call.rekeyed
    /\ call.master_key = Ramp /\ call.nonce = <<>>
    /\ cipher.master_key_ = Ramp /\ cipher.rk_gen_.nonce_ = <<>>
    /\ sbox_static.constructed

----------------------------------------------------------------------------
(* is_permutation against the S-box it describes, for every accepted modulus *)

\* moduli of the S-boxes asked: the small ones, prime and composite, every
\* modulus from 1001 to 1300 that SBox accepts, two large primes and three
\* that SBox rejects
PermutationModuli ==
    {2, 5, 8, 11, 14} \cup {p \in 1001 .. 1300 : p % 3 = 2}
        \cup {65537, 65543} \cup {3, 7, 1002}

NextPermutation ==
    \E p \in PermutationModuli : SBoxIsPermutation(p)

SpecPermutation ==
    Init /\ [][NextPermutation]_vars

Divisors(p) ==
    {q \in 1 .. p - 1 : p % q = 0}

\* triples of [0, p)^3 on which injectivity is tested: all of them up to
\* p = 1000; above, for x0 up to 12, (x0, 0, 0) and (x0, -x0 * q, q) for the
\* divisors q of p
InjectivityInputs(p) ==
    IF p <= 1000 THEN FieldTriples(p)
    ELSE {<<x0, 0, 0>> : x0 \in 0 .. 12}
           \cup {<<x0, (p - ((x0 * q) % p)) % p, q>> : x0 \in 0 .. 12, q \in Divisors(p)}

\* apply takes no two triples of T to the same triple
InjectiveOn(p, T) ==
    Cardinality({SBox_apply(p, x).out : x \in T}) = Cardinality(T)

\* C25: for every modulus the SBox constructor accepts, prime or not, above
\* or below 1000, is_permutation() is true if and only if apply is a
\* bijection of [0, p)^3, that is, injective on it.
C25_IsPermutationIffBijection ==
    (call.op = "is_permutation" /\ call.status = "ok")
        => (call.out <=> InjectiveOn(call.p, InjectivityInputs(call.p)))

\* up to 1000 is_permutation decides bijectivity, composite moduli included
SmallModuliDecided ==
    (call.op = "is_permutation" /\ call.status = "ok" /\ call.p <= 1000)
        => (call.out <=> InjectiveOn(call.p, FieldTriples(call.p)))

\* above 1000 is_permutation is true whatever the modulus
LargeModuliAlwaysTrue ==
    (call.op = "is_permutation" /\ call.status = "ok" /\ call.p > 1000)
        => call.out = TRUE

----------------------------------------------------------------------------
(* The derivation of a round constant, checked under SpecSchedule *)

\* 256^e mod p, for p below 2^23
RECURSIVE Pow256Mod(_, _)
Pow256Mod(e, p) ==
    IF e = 0 THEN 1 % p ELSE (Pow256Mod(e - 1, p) * 256) % p

\* bytes [start, start + 8) read as a big-endian unsigned 64-bit integer,
\* mod p: the sum of byte t times 256^(7 - t)
BigEndian64Mod(bytes, start, p) ==
    LET w == [e \in 0 .. 7 |-> Pow256Mod(e, p)]
        b == [t \in 0 .. 7 |-> bytes[start + t + 1]]
    IN  (b[0] * w[7] + b[1] * w[6] + b[2] * w[5] + b[3] * w[4]
           + b[4] * w[3] + b[5] * w[2] + b[6] * w[1] + b[7] * w[0]) % p

\* C26: generate_round_constant(r, j, p) gives the XOF the bytes of the
\* nonce, then the 4 little-endian bytes of the block index j, then the 4
\* little-endian bytes of the round index r, asks for 288 bytes, and makes
\* element k the big-endian value of bytes [8k, 8k + 8) mod p, or 1 when
\* that is 0; so the result is a function of (N, j, r, p) only.
C26_RoundConstantDerivation ==
    call.op = "generate_round_constant"
        => LET j     == call.j
               r     == call.i
               input == call.nonce
                          \o <<j % 256, (j \div 256) % 256, (j \div 65536) % 256,
                               (j \div 16777216) % 256>>
                          \o <<r % 256, (r \div 256) % 256, (r \div 65536) % 256,
                               (r \div 16777216) % 256>>
               out   == shake128_xof(input, 288)
           IN  /\ Len(out) = 288
               /\ Len(call.out) = 36
               /\ \A k \in 0 .. 35 :
                     LET v == BigEndian64Mod(out, 8 * k, call.p)
                     IN  call.out[k + 1] = IF v = 0 THEN 1 ELSE v

\* a round constant for round 3 of block 1 under a 4-byte nonce
C26_Witness ==
    /\ call.op = "generate_round_constant"
    /\ call.nonce = <<1, 2, 3, 4>>
    /\ call.i = 3
    /\ call.j = 1
    /\ call.p = 65537
    /\ Len(call.out) = 36

----------------------------------------------------------------------------
(* The OpenMP loops of LinearLayer::apply and apply_sbox_layer, one write of
   output at a time.  `#pragma omp parallel for` hands every thread of the
   team a contiguous chunk of the iterations (the static schedule); the
   threads run in any interleaving.  row_sum, mask, sbox_input and
   sbox_output are declared inside the loop body, so each iteration has its
   own; state, p, matrix_, four_russians_table_ and the static S-box are
   shared and only read; output is shared and written. *)

\* the largest team
MaxThreads ==
    3

\* first iteration of thread t of a team of T over N iterations, and the
\* first iteration after its chunk
ChunkLo(t, T, N) ==
    (t * N) \div T

ChunkHi(t, T, N) ==
    ((t + 1) * N) \div T

\* an S-box iteration that stores its triple at output[2i .. 2i+2]
SBoxWrite_stride2(sbox_p, state, i, e) ==
    LET start       == i * 3
        sbox_input  == <<At(state, start), At(state, start + 1), At(state, start + 2)>>
        sbox_output == SBox_apply(sbox_p, sbox_input).out
    IN  <<i * 2 + e, At(sbox_output, e)>>

\* iteration `row` of the loop of LinearLayer::apply: output[row] = row_sum,
\* as <<index, value>>
LinearWrite(row, state, p) ==
    <<row, ApplyGroups(row, state, p, 0, 0)>>

\* iteration i of the loop of apply_sbox_layer: its e-th assignment,
\* output[start + e] = sbox_output[e], as <<index, value>>
SBoxWrite(sbox_p, state, i, e) ==
    LET start       == i * 3
        sbox_input  == <<At(state, start), At(state, start + 1), At(state, start + 2)>>
        sbox_output == SBox_apply(sbox_p, sbox_input).out
    IN  <<start + e, At(sbox_output, e)>>

ParallelLinearCalls ==
    { <<Ramp, 65537>>, <<Ones, 5>> }

ParallelSBoxCalls ==
    { <<Ramp, 65537>>, <<Ramp, 5>> }

\* LinearLayer::apply up to the parallel region: the size check has passed and
\* output(36, 0) is allocated; T threads start at the head of their chunks.
\* next[t] is the iteration thread t runs next; writers[k] is the set of
\* iterations that have assigned output[k-1].
LinearFork(state, p, T) ==
    /\ call.op = "none"
    /\ Len(state) = StateLen
    /\ call' = [p |-> p, state |-> state, next |-> [t \in 0 .. T - 1 |-> ChunkLo(t, T, StateLen)], output |-> [k \in 1 .. StateLen |-> 0],
                op |-> "linear_region",
                threads |-> T,
                writers |-> [k \in 1 .. StateLen |-> {}]]
    /\ UNCHANGED <<sbox_static, cipher>>

\* thread t runs its next row
LinearIteration(t) ==
    /\ call.op = "linear_region"
    /\ t \in DOMAIN call.next
    /\ call.next[t] < ChunkHi(t, call.threads, StateLen)
    /\ \E w \in {LinearWrite(call.next[t], call.state, call.p)} :
         call' = [call EXCEPT !.next[t] = @ + 1,
                              !.output[w[1] + 1] = w[2],
                              !.writers[w[1] + 1] = @ \cup {call.next[t]}]
    /\ UNCHANGED <<sbox_static, cipher>>

\* the end of the region: every thread has finished its chunk; apply returns
\* output
LinearJoin ==
    /\ call.op = "linear_region"
    /\ \A t \in DOMAIN call.next : call.next[t] = ChunkHi(t, call.threads, StateLen)
    /\ call' = [p |-> call.p, state |-> call.state, out |-> call.output,
                op |-> "linear_joined", threads |-> call.threads, writers |-> call.writers]
    /\ UNCHANGED <<sbox_static, cipher>>

\* apply_sbox_layer up to the parallel region: size check, construction of
\* the static S-box, output(36).  next[t] counts assignments: thread t is in
\* iteration next[t] \div 3 and has done next[t] % 3 of its three assignments.
SBoxFork(state, p, T) ==
    /\ call.op = "none"
    /\ Len(state) = StateLen
    /\ sbox_static.constructed \/ SBox_ctor_ok(p)
    /\ sbox_static' = IF sbox_static.constructed THEN sbox_static ELSE StaticSBox(p)
    /\ call' = [p |-> p, state |-> state, next |-> [t \in 0 .. T - 1 |-> 3 * ChunkLo(t, T, 12)], output |-> [k \in 1 .. StateLen |-> 0],
                op |-> "sbox_region",
                threads |-> T,
                writers |-> [k \in 1 .. StateLen |-> {}]]
    /\ UNCHANGED cipher

\* thread t does the next assignment of its current iteration
SBoxIteration(t) ==
    /\ call.op = "sbox_region"
    /\ t \in DOMAIN call.next
    /\ call.next[t] < 3 * ChunkHi(t, call.threads, 12)
    /\ \E w \in {SBoxWrite(sbox_static.p_, call.state, call.next[t] \div 3, call.next[t] % 3)} :
         call' = [call EXCEPT !.next[t] = @ + 1,
                              !.output[w[1] + 1] = w[2],
                              !.writers[w[1] + 1] = @ \cup {call.next[t] \div 3}]
    /\ UNCHANGED <<sbox_static, cipher>>

SBoxJoin ==
    /\ call.op = "sbox_region"
    /\ \A t \in DOMAIN call.next : call.next[t] = 3 * ChunkHi(t, call.threads, 12)
    /\ call' = [p |-> call.p, state |-> call.state, out |-> call.output,
                op |-> "sbox_joined", threads |-> call.threads, writers |-> call.writers]
    /\ UNCHANGED <<sbox_static, cipher>>

NextParallel ==
    \/ \E c \in ParallelLinearCalls, T \in 1 .. MaxThreads : LinearFork(c[1], c[2], T)
    \/ \E t \in 0 .. MaxThreads - 1 : LinearIteration(t)
    \/ LinearJoin
    \/ \E c \in ParallelSBoxCalls, T \in 1 .. MaxThreads : SBoxFork(c[1], c[2], T)
    \/ \E t \in 0 .. MaxThreads - 1 : SBoxIteration(t)
    \/ SBoxJoin

SpecParallel ==
    Init /\ [][NextParallel]_vars

\* C28: in both parallel loops an element of output is assigned only by its
\* own iteration (output[row] by row, output[3i .. 3i+2] by i), so no element
\* has two writers, and whatever the interleaving the vector returned at the
\* end of the region is the one the sequential loop returns.
C28_IterationsIndependent ==
    /\ call.op \in {"linear_region", "linear_joined"}
         => \A k \in 1 .. StateLen : call.writers[k] \subseteq {k - 1}
    /\ call.op \in {"sbox_region", "sbox_joined"}
         => \A k \in 1 .. StateLen : call.writers[k] \subseteq {(k - 1) \div 3}
    /\ call.op = "linear_joined"
         => /\ \A k \in 1 .. StateLen : call.writers[k] = {k - 1}
            /\ call.out = LinearLayer_apply(call.state, call.p).out
    /\ call.op = "sbox_joined"
         => /\ \A k \in 1 .. StateLen : call.writers[k] = {(k - 1) \div 3}
            /\ call.out = apply_sbox_layer(call.state, call.p, NoSBox).res.out

\* three threads, the last one finished before the first one has started
C28_Witness ==
    /\ call.op = "sbox_region" /\ call.threads = 3 /\ call.state = Ramp /\ call.p = 65537
    /\ call.next[0] = 0 /\ call.next[1] = 14 /\ call.next[2] = 36
    /\ call.output[36] # 0 /\ call.output[1] = 0
    /\ call.writers[36] = {11} /\ call.writers[14] = {4} /\ call.writers[15] = {}

----------------------------------------------------------------------------
(* fhe_wrapper.cpp.  HElib and SEAL lie outside the repository; a ciphertext
   is represented by the key generation it was made under and the slot
   values its plaintext holds, and decryption under that key returns those
   values: the correctness the two libraries document for fresh ciphertexts.
   What the wrapper does around them (conversions, reduction into the
   plaintext space, batching, the vectors it builds) is modelled as coded. *)

BGV ==
    "BGV"

BFV ==
    "BFV"

\* the largest number of generate_keys() calls on one wrapper
MaxKeyGens ==
    2

\* trial division, for n below 2^20
seal_is_prime(n) ==
    n >= 2 /\ \A d \in 2 .. 1024 : d * d > n \/ n % d # 0

RECURSIVE seal_get_prime(_, _, _)
\* the descending search of seal::PlainModulus::Batching: the first prime
\* among value, value - factor, ... above lower_bound (0 when there is none)
seal_get_prime(value, factor, lower_bound) ==
    IF value <= lower_bound THEN 0
    ELSE IF seal_is_prime(value) THEN value
    ELSE seal_get_prime(value - factor, factor, lower_bound)

\* seal::PlainModulus::Batching(poly_modulus_degree, bit_size): the largest
\* prime of bit_size bits that is 1 modulo 2 * poly_modulus_degree
PlainModulus_Batching(poly_modulus_degree, bit_size) ==
    LET factor == 2 * poly_modulus_degree
        top    == 2 ^ bit_size
    IN  seal_get_prime(((top - 1) \div factor) * factor + 1, factor, top \div 2)

\* FHEWrapper::FHEWrapper(scheme, params).  plain_t is the plaintext modulus
\* of the context that init_helib / init_seal build: params.plain_modulus for
\* HElib (r = 1), Batching(poly_modulus_degree, 20) for SEAL; slots is the
\* slot count of SEAL's BatchEncoder; keygens counts generate_keys() calls.
FHEWrapper_ctor(scheme, params) ==
    IF params.security_level # 80 /\ params.security_level # 128
    THEN [status |-> "invalid_argument", obj |-> [alive |-> FALSE]]
    ELSE IF ~is_p_2mod3(params.plain_modulus)
    THEN [status |-> "invalid_argument", obj |-> [alive |-> FALSE]]
    ELSE [status |-> "ok",
          obj    |-> [alive   |-> TRUE,
                      scheme_ |-> scheme,
                      params_ |-> params,
                      plain_t |-> IF scheme = BGV THEN params.plain_modulus
                                  ELSE PlainModulus_Batching(params.poly_modulus_degree, 20),
                      slots   |-> params.poly_modulus_degree,
                      keygens |-> 0]]

\* FHEWrapper::generate_keys(): a new key pair replaces the current one
FHEWrapper_generate_keys(w) ==
    [w EXCEPT !.keygens = @ + 1]

\* mpz_class::get_si() and get_ui() of a value that fits a long: the value,
\* and its magnitude
get_si(v) ==
    v

get_ui(v) ==
    Abs(v)

\* FHEWrapper::encrypt(plain, cipher): the status and the vector cipher is
\* left as.  BGV: one ciphertext per element, slot 0 set from get_si(), which
\* HElib reduces into [0, p).  BFV: the get_ui() values go through the
\* BatchEncoder into one ciphertext; encode throws when there are more values
\* than slots, and pads with zeros.
FHEWrapper_encrypt(w, plain) ==
    IF w.scheme_ = BGV
    THEN [cipher |-> [k \in 1 .. Len(plain) |->
                        [slots |-> <<get_si(plain[k]) % w.plain_t>>,
                         key |-> w.keygens]],
          status |-> "ok"]
    ELSE IF Len(plain) > w.slots
    THEN [cipher |-> <<>>, status |-> "invalid_argument"]
    ELSE [cipher |-> << [slots |-> [k \in 1 .. w.slots |->
                                      IF k <= Len(plain) THEN get_ui(plain[k]) % w.plain_t
                                      ELSE 0],
                         key |-> w.keygens] >>,
          status |-> "ok"]

\* FHEWrapper::decrypt(cipher) of ciphertexts made under the current key.
\* BGV: slot 0 of every ciphertext; BFV: every slot of the first ciphertext,
\* nothing when the vector is empty.
FHEWrapper_decrypt(w, cipher_vec) ==
    IF w.scheme_ = BGV
    THEN [k \in 1 .. Len(cipher_vec) |-> cipher_vec[k].slots[1]]
    ELSE IF cipher_vec = <<>> THEN <<>>
    ELSE cipher_vec[1].slots

\* FHEWrapper::evaluate_yus(cipher_key, cipher_keystream): the 0-based indices
\* it reads on each vector, the keystream vector afterwards (the product is
\* stored through the pointer) and whether it returned 0.0 at once.  An index
\* that is read past the end of a vector is in the reads all the same; what
\* the program does then is not defined.
FHEWrapper_evaluate_yus(w, cipher_key, cipher_keystream) ==
    LET mul(ks, key) ==
            [slots |-> [k \in 1 .. Len(ks.slots) |-> (ks.slots[k] * key.slots[k]) % w.plain_t],
             key |-> ks.key]
    IN  IF w.scheme_ = BGV
        THEN [key_reads |-> {i \in 0 .. Len(cipher_key) - 1 : TRUE},
              ks_reads  |-> {i \in 0 .. Len(cipher_key) - 1 : TRUE},
              ks_after  |-> [k \in 1 .. Len(cipher_keystream) |->
                               IF k <= Len(cipher_key)
                               THEN mul(cipher_keystream[k], cipher_key[k])
                               ELSE cipher_keystream[k]],
              early     |-> FALSE]
        ELSE IF cipher_key = <<>> \/ cipher_keystream = <<>>
        THEN [key_reads |-> {}, ks_reads |-> {}, ks_after |-> cipher_keystream, early |-> TRUE]
        ELSE [key_reads |-> {0}, ks_reads |-> {0},
              ks_after  |-> [cipher_keystream EXCEPT ![1] = mul(cipher_keystream[1], cipher_key[1])],
              early     |-> FALSE]

\* (security_level, poly_modulus_degree, plain_modulus, cipher_modulus_bits):
\* a 17-bit and a 21-bit plaintext modulus, a level and a modulus the
\* constructor refuses
FheParamSets ==
    { [poly_modulus_degree |-> 1024,  security_level |-> 80, plain_modulus |-> 65537,
       cipher_modulus_bits |-> 50],
      [poly_modulus_degree |-> 1024, security_level |-> 128, plain_modulus |-> 1048583,
       cipher_modulus_bits |-> 50],
      [poly_modulus_degree |-> 1024, security_level |-> 100, plain_modulus |-> 65537,
       cipher_modulus_bits |-> 50],
      [poly_modulus_degree |-> 1024,  security_level |-> 80, plain_modulus |-> 7,
       cipher_modulus_bits |-> 50] }

\* plaintext vectors passed to encrypt: elements of the field of
\* params.plain_modulus (FheEncrypt keeps those that are); the last has one
\* element more than the BatchEncoder has slots
FhePlains ==
    { <<1, 1, 1, 1>>, <<1, 1>>, <<>>, <<0, 5, 65536>>, <<1038336, 2>>, <<1048582>>,
      [k \in 1 .. 1025 |-> 1] }

\* lengths of the plaintext vectors behind cipher_key and cipher_keystream
EvalLengths ==
    0 .. 2

\* the wrapper the last call was made on
NoWrapper ==
    [alive |-> FALSE]

Wrapper ==
    IF "w" \in DOMAIN call THEN call.w ELSE NoWrapper

\* FHEWrapper wrapper(scheme, params)
FheConstruct(scheme, params) ==
    /\ call.op = "none"
    /\ \E r \in {FHEWrapper_ctor(scheme, params)} :
         call' = [status |-> r.status, op |-> "fhe_ctor", w |-> r.obj]
    /\ UNCHANGED <<sbox_static, cipher>>

\* wrapper.generate_keys()
FheGenerateKeys ==
    /\ Wrapper.alive
    /\ Wrapper.keygens < MaxKeyGens
    /\ call' = [status |-> "ok", op |-> "fhe_generate_keys",
                w |-> FHEWrapper_generate_keys(Wrapper)]
    /\ UNCHANGED <<sbox_static, cipher>>

\* wrapper.encrypt(plain, cipher)
FheEncrypt(plain) ==
    /\ Wrapper.alive
    /\ {k \in 1 .. Len(plain) : plain[k] < 0 \/ plain[k] >= Wrapper.params_.plain_modulus} = {}
    /\ call.op \in {"fhe_ctor", "fhe_generate_keys"}
    /\ \E r \in {FHEWrapper_encrypt(Wrapper, plain)} :
         call' = [cipher |-> r.cipher, status |-> r.status, op |-> "fhe_encrypt",
                  plain |-> plain, w |-> Wrapper]
    /\ UNCHANGED <<sbox_static, cipher>>

\* wrapper.decrypt(cipher) of the vector encrypt has just filled
FheDecrypt ==
    /\ call.op = "fhe_encrypt" /\ call.status = "ok"
    /\ call' = [status |-> "ok", out |-> FHEWrapper_decrypt(call.w, call.cipher), op |-> "fhe_decrypt",
                plain |-> call.plain, w |-> call.w]
    /\ UNCHANGED <<sbox_static, cipher>>

\* wrapper.evaluate_yus(cipher_key, cipher_keystream) on the encryptions of
\* nk twos and nks threes (an empty vector for 0).  A read past the end of
\* cipher_keystream is undefined: the call may crash, or return having
\* multiplied the elements that exist.
FheEvaluateYus(nk, nks) ==
    /\ Wrapper.alive
    /\ call.op \in {"fhe_ctor", "fhe_generate_keys"}
    /\ \E ck \in {FHEWrapper_encrypt(Wrapper, [k \in 1 .. nk |-> 2]).cipher} :
       \E cks \in {FHEWrapper_encrypt(Wrapper, [k \in 1 .. nks |-> 3]).cipher} :
       \E r \in {FHEWrapper_evaluate_yus(Wrapper,
                                         IF nk = 0 THEN <<>> ELSE ck,
                                         IF nks = 0 THEN <<>> ELSE cks)} :
       \E outcome \in {"returned", "crashed"} :
         /\ outcome = "crashed"
              => \E i \in r.ks_reads : i >= (IF nks = 0 THEN 0 ELSE Len(cks))
         /\ call' = [status |-> outcome, out |-> IF outcome = "crashed" THEN <<>>
                             ELSE FHEWrapper_decrypt(Wrapper, r.ks_after), op |-> "fhe_evaluate_yus",
                     key_len |-> IF nk = 0 THEN 0 ELSE Len(ck),
                     w |-> Wrapper,
                     key_reads |-> r.key_reads, ks_reads |-> r.ks_reads,
                     early |-> r.early,
                     ks_len |-> IF nks = 0 THEN 0 ELSE Len(cks)]
    /\ UNCHANGED <<sbox_static, cipher>>

NextFHE ==
    \/ \E scheme \in {BGV, BFV}, params \in FheParamSets : FheConstruct(scheme, params)
    \/ FheGenerateKeys
    \/ \E plain \in FhePlains : FheEncrypt(plain)
    \/ FheDecrypt
    \/ \E nk \in EvalLengths, nks \in EvalLengths : FheEvaluateYus(nk, nks)

SpecFHE ==
    Init /\ [][NextFHE]_vars

\* C29: after generate_keys(), encrypt(plain) succeeds and decrypt of its
\* result returns a vector whose first |plain| elements are those of plain;
\* under BGV it has exactly |plain| elements, under BFV at least |plain|.
C29_FheRoundTrip ==
    /\ (call.op = "fhe_encrypt" /\ call.w.keygens >= 1) => call.status = "ok"
    /\ (call.op = "fhe_decrypt" /\ call.w.keygens >= 1)
         => /\ Len(call.out) >= Len(call.plain)
            /\ call.w.scheme_ = BGV => Len(call.out) = Len(call.plain)
            /\ \A k \in 1 .. Len(call.plain) : call.out[k] = call.plain[k]

\* The round trip holds for the vectors the backend can hold: elements in
\* [0, plain_t) and, under BFV, no more elements than slots.
RoundTripInPlaintextSpace ==
    /\ (call.op = "fhe_encrypt" /\ call.status # "ok")
         => call.w.scheme_ = BFV /\ Len(call.plain) > call.w.slots
    /\ (call.op = "fhe_decrypt"
          /\ \A k \in 1 .. Len(call.plain) : call.plain[k] >= 0 /\ call.plain[k] < call.w.plain_t)
         => /\ Len(call.out) >= Len(call.plain)
            /\ call.w.scheme_ = BGV => Len(call.out) = Len(call.plain)
            /\ call.w.scheme_ = BFV /\ call.plain # <<>> => Len(call.out) = call.w.slots
            /\ \A k \in 1 .. Len(call.plain) : call.out[k] = call.plain[k]

\* C30: evaluate_yus reads no element of cipher_key or cipher_keystream at an
\* index outside the vector, whatever the two lengths: under BGV every index
\* used on cipher_keystream is below its length, and under BFV element 0 is
\* read only when both vectors are non-empty.
C30_EvaluateYusInBounds ==
    call.op = "fhe_evaluate_yus"
        => /\ \A i \in call.key_reads : i < call.key_len
           /\ \A i \in call.ks_reads : i < call.ks_len

\* The reads are in bounds when cipher_keystream is at least as long as
\* cipher_key, and always under BFV.
EvaluateYusInBoundsWhenLongEnough ==
    (call.op = "fhe_evaluate_yus" /\ (call.w.scheme_ = BFV \/ call.key_len <= call.ks_len))
        => /\ \A i \in call.key_reads : i < call.key_len
           /\ \A i \in call.ks_reads : i < call.ks_len

====
